---- MODULE Spec2Model ----
(***************************************************************************)
(* fe::copy_on_write_vector (ferrum): two containers A and B, the heap of  *)
(* buffers their std::shared_ptr members refer to, and threads that call   *)
(* mutators and lock().                                                    *)
(*                                                                         *)
(* A std::shared_ptr<container_type> is two words: the pointer to the      *)
(* vector (ptr) and the pointer to the control block holding the reference *)
(* count (ctl).  std::make_shared places both in one allocation, so a      *)
(* buffer is one heap slot and ptr = ctl for every well formed pointer.    *)
(* Copying a shared_ptr reads ptr, reads ctl and then increments the count *)
(* of ctl; move assignment exchanges ptr, exchanges ctl and then releases  *)
(* the reference it took out.  The member _shared_container is a plain     *)
(* std::shared_ptr: lock() copies it without holding _mutex, so these      *)
(* word steps of a reader interleave with the word steps of a publish.     *)
(***************************************************************************)
EXTENDS Integers, Sequences, FiniteSets, TLC

VARIABLES
  heap,     \* the allocations made by std::make_shared, by slot
  cur,      \* _shared_container of each container
  mutex,    \* _mutex of each container: the thread that holds it
  pc,       \* where each thread is in its call
  op,       \* the call each thread is in (the last one when idle)
  copied,   \* the local copied_container of a mutator
  copied2,  \* the local other_copied_container of swap
  tmp,      \* the temporary of a move assignment, holding the replaced pointer
  stmp,     \* the shared_ptr a reader is copying _shared_container into
  snap,     \* the snapshot a thread holds
  iter,     \* the iterator a thread holds
  raw,      \* a std::vector owned by each thread (the argument of swap)
  ret,      \* the value a thread's last call returned
  sql,      \* the SQLite databases, the sqlite_transaction objects and the
            \* update_version call in progress
  ref,      \* the element reference a thread got from at(), [], front() or back()
  cipher,   \* the cipher_value objects
  query,    \* the sqlite_query, its statement and the iterator of the loop over it
  calls,    \* number of calls begun
  acq,      \* history: what each held snapshot showed when lock() returned
  prev,     \* history: the version the thread's previous lock() returned
  before,   \* history: the snapshots that were held when the call began
  pre,      \* history: the containers when the call had taken its mutexes
  pushed,   \* history: the values each thread has passed to push_back
  last      \* history: the push_back_if_absent(value) that returned last on each
            \* container, when no other mutator has returned on it since

program == <<heap, cur, mutex, pc, op, copied, copied2, tmp, stmp, snap, iter, raw, ret, sql, ref, cipher, query>>
history == <<acq, prev, before, pre, pushed, last>>
vars == <<program, calls, history>>

(* ------------------------------ bounds -------------------------------- *)
NumThreads == 3
NumBufs == 5
MaxCalls == 3
Width == 2
MaxRows == 3
MaxBusy == 2

Threads == 1..NumThreads
Slots == 1..NumBufs
Containers == {"A", "B"}
NoThread == 0
Null == 0
\* what ret holds when the call ended by throwing std::out_of_range
OutOfRangeError == -2
\* what ret holds when the expression the caller wrote is ill-formed
IllFormed == -3
\* what ret holds when the call ended by throwing std::system_error
DeadlockError == -4
\* an iterator: _shared_container, and _itr as an offset from begin(); end is the
\* offset of end() and seen the elements (history) of the buffer it was made from
\* (vis: history, the elements a loop over the snapshot has visited)
NoIter == [ptr |-> Null, ctl |-> Null, pos |-> 0, end |-> 0, seen |-> <<>>, vis |-> <<>>]
NullPtr == [ptr |-> Null, ctl |-> Null]
\* a const_reference: the address of an element, as the buffer and the offset in
\* it (of, ver: history, the allocation that was at that address)
NoRef == [ptr |-> Null, pos |-> 0, of |-> "A", ver |-> 0]

(* ------------------------- std::vector algorithms --------------------- *)
Min(S) == CHOOSE x \in S : \A y \in S : x <= y

\* a search from the back: index of the last element equal to v
LastIndexOf(s, v) ==
  IF \E i \in 1..Len(s) : s[i] = v
    THEN CHOOSE i \in 1..Len(s) : s[i] = v /\ \A j \in (i + 1)..Len(s) : s[j] # v
    ELSE 0

\* std::find: index of the first element equal to v, 0 for end()
IndexOf(s, v) ==
  IF \E i \in 1..Len(s) : s[i] = v
    THEN Min({i \in 1..Len(s) : s[i] = v})
    ELSE 0

Contains(s, v) == IndexOf(s, v) # 0

\* vector::erase(begin() + (i - 1))
RemoveAt(s, i) == [j \in 1..(Len(s) - 1) |-> IF j < i THEN s[j] ELSE s[j + 1]]

\* vector(count, value) / vector::assign(count, value)
Fill(n, v) == [i \in 1..n |-> v]

Count(s, v) == Cardinality({i \in 1..Len(s) : s[i] = v})

RECURSIVE InsertSorted(_, _)
InsertSorted(s, v) ==
  IF s = <<>> THEN <<v>>
  ELSE IF v < Head(s) THEN <<v>> \o s
  ELSE <<Head(s)>> \o InsertSorted(Tail(s), v)

\* std::sort with operator<
RECURSIVE StdSort(_)
StdSort(s) == IF s = <<>> THEN <<>> ELSE InsertSorted(StdSort(Tail(s)), Head(s))

\* a loop that stops at the first element equal to old
ReplaceFirstSeq(s, old, new) == [s EXCEPT ![IndexOf(s, old)] = new]

\* the loop of replace_all: every element equal to old becomes new
ReplaceAllSeq(s, old, new) == [i \in 1..Len(s) |-> IF s[i] = old THEN new ELSE s[i]]

\* a loop that appends every value of the range
AppendAll(s, r) == s \o r

\* the loop of push_back_if_absent(first, last): each value of the range not yet
\* in the vector is appended
RECURSIVE AppendAbsent(_, _)
AppendAbsent(s, r) ==
  IF r = <<>> THEN s
  ELSE AppendAbsent(IF Contains(s, Head(r)) THEN s ELSE Append(s, Head(r)), Tail(r))

(* ------------------------------ calls --------------------------------- *)
\* k: the member function, c: the container it is called on, d: the other
\* container of swap, v / w: its value arguments, r: its range argument
NoOp == [k |-> "none", c |-> "A", d |-> "A", v |-> 0, w |-> 0, r |-> <<>>]
Call(k, c) == [NoOp EXCEPT !.k = k, !.c = c, !.d = c]
PushBack(c, v) == [Call("push_back", c) EXCEPT !.v = v]
Erase(c, v) == [Call("erase", c) EXCEPT !.v = v]
Clear(c) == Call("clear", c)
Assign(c, n, v) == [Call("assign", c) EXCEPT !.v = v, !.w = n]
Sort(c) == Call("sort", c)
ReplaceAll(c, old, new) == [Call("replace_all", c) EXCEPT !.v = old, !.w = new]
PushBackIfAbsentRange(c, r) == [Call("push_back_if_absent_range", c) EXCEPT !.r = r]
SwapRaw(c) == Call("swap_raw", c)
Swap(c, d) == [Call("swap", c) EXCEPT !.d = d]
LockCall(c) == Call("lock", c)
\* a UnaryPredicate argument is given by the values it is true of, held in r
EraseIf(c, r) == [Call("erase_if", c) EXCEPT !.r = r]
Replace(c, old, new) == [Call("replace", c) EXCEPT !.v = old, !.w = new]
ReplaceIf(c, r, new) == [Call("replace_if", c) EXCEPT !.r = r, !.w = new]
PushBackIfAbsent(c, v) == [Call("push_back_if_absent", c) EXCEPT !.v = v]
EraseAll(c, v) == [Call("erase_all", c) EXCEPT !.v = v]
EraseAllIf(c, r) == [Call("erase_all_if", c) EXCEPT !.r = r]
ReplaceAllIf(c, r, new) == [Call("replace_all_if", c) EXCEPT !.r = r, !.w = new]
\* index-based mutators: w is the index (first for erase_range, v its last)
InsertAt(c, i, v) == [Call("insert_at", c) EXCEPT !.w = i, !.v = v]
EmplaceAt(c, i, v) == [Call("emplace_at", c) EXCEPT !.w = i, !.v = v]
ReplaceAt(c, i, v) == [Call("replace_at", c) EXCEPT !.w = i, !.v = v]
EraseAt(c, i) == [Call("erase_at", c) EXCEPT !.w = i]
EraseRange(c, i, j) == [Call("erase_range", c) EXCEPT !.w = i, !.v = j]

\* push_back(first, last): r is the range, w the number of its values that the
\* loop has pushed so far
PushBackRange(c, r) == [Call("push_back_range", c) EXCEPT !.r = r]
\* w is new_cap of reserve and count of resize
Reserve(c, n) == [Call("reserve", c) EXCEPT !.w = n]
ShrinkToFit(c) == Call("shrink_to_fit", c)
Resize(c, n) == [Call("resize", c) EXCEPT !.w = n]
PopBack(c) == Call("pop_back", c)
EmplaceBack(c, v) == [Call("emplace_back", c) EXCEPT !.v = v]
StableSort(c) == Call("stable_sort", c)
\* sort(comp) and stable_sort(comp) with a comparator that orders by tens
SortBy(c) == Call("sort_by", c)
StableSortBy(c) == Call("stable_sort_by", c)

\* the strict weak ordering of the call: comp(a, b) when supplied, a < b if not
Comp(o, a, b) ==
  IF o.k \in {"sort_by", "stable_sort_by"} THEN a \div 10 < b \div 10 ELSE a < b

\* an insertion that puts v before the elements equivalent to it
InsertBefore(o, s, v) ==
  LET k == Cardinality({i \in 1..Len(s) : Comp(o, s[i], v)}) IN
    SubSeq(s, 1, k) \o <<v>> \o SubSeq(s, k + 1, Len(s))

\* v goes behind every element of the sorted s that is not greater than it
InsertStable(o, s, v) ==
  LET k == Cardinality({i \in 1..Len(s) : ~Comp(o, v, s[i])}) IN
    SubSeq(s, 1, k) \o <<v>> \o SubSeq(s, k + 1, Len(s))

\* std::stable_sort: ascending, equivalent elements in the order they had
RECURSIVE StableSortSeq(_, _)
StableSortSeq(o, s) ==
  IF s = <<>> THEN <<>>
  ELSE InsertStable(o, StableSortSeq(o, SubSeq(s, 1, Len(s) - 1)), s[Len(s)])

\* std::sort: ascending, equivalent elements in an order that is not specified:
\* every ascending arrangement of the elements
SortOutcomes(o, s) ==
  LET n == Len(s)
      P == {f \in [1..n -> 1..n] : \A i \in 1..n, j \in 1..n : f[i] = f[j] => i = j} IN
    {e \in {[i \in 1..n |-> s[f[i]]] : f \in P} :
       \A i \in 1..n, j \in 1..n : i < j => ~Comp(o, e[j], e[i])}

\* is begin() + index a position vector::insert, operator[] or erase is defined for
InRange(o, s) ==
  CASE o.k \in {"insert_at", "emplace_at"} -> o.w <= Len(s)
    [] o.k \in {"replace_at", "erase_at"} -> o.w < Len(s)
    [] o.k = "erase_range" -> o.w <= o.v /\ o.v <= Len(s)
    [] o.k = "pop_back" -> Len(s) > 0
    [] OTHER -> TRUE

\* what a read of memory outside the vector's elements can yield
Indeterminate == {0, 9}

\* the vector after insert, operator[] = or erase at a position outside it, which
\* is undefined: the write or the moves land outside the elements and leave them as
\* they are, or the size moves by one, over an indeterminate element or off the
\* last one
UndefinedOutcomes(o, s) ==
  {s} \cup
  (IF o.k \in {"insert_at", "emplace_at"}
     THEN {Append(s, x) : x \in Indeterminate}
     ELSE IF o.k \in {"erase_at", "erase_range", "pop_back"} /\ s # <<>>
       THEN {SubSeq(s, 1, Len(s) - 1)}
       ELSE {})

\* value-search mutators look in the current buffer before they copy
IsSearch(o) == o.k \in {"erase", "erase_if", "replace", "replace_if", "push_back_if_absent"}
\* bulk mutators that start from an alias of the current buffer
IsLazy(o) == o.k \in {"replace_all", "replace_all_if", "push_back_if_absent_range"}

\* pred(x) of the call o
Pred(o, x) == \E i \in 1..Len(o.r) : o.r[i] = x

\* std::find_if: index of the first element pred is true of, 0 for end()
FindIf(o, s) ==
  IF \E i \in 1..Len(s) : Pred(o, s[i])
    THEN Min({i \in 1..Len(s) : Pred(o, s[i])})
    ELSE 0

\* a removal that stops after the first element equal to v
RemoveFirst(s, v) == IF Contains(s, v) THEN RemoveAt(s, IndexOf(s, v)) ELSE s

\* std::remove / std::remove_if followed by erase to end(): the elements that
\* are kept, in their order
RemoveAll(s, v) == SelectSeq(s, LAMBDA x : x # v)
RemoveAllIf(o, s) == SelectSeq(s, LAMBDA x : ~Pred(o, x))

\* the loop of replace_all_if: every element pred is true of becomes o.w
ReplaceAllIfSeq(o, s) == [i \in 1..Len(s) |-> IF Pred(o, s[i]) THEN o.w ELSE s[i]]

\* a mutator that goes on to copy whatever its search finds
FoundAlways(o, s) == TRUE

\* does the search in the current buffer find what the mutator needs to go on
Found(o, s) ==
  CASE o.k \in {"erase", "replace"} -> Contains(s, o.v)
    [] o.k \in {"erase_if", "replace_if"} -> FindIf(o, s) # 0
    [] o.k = "push_back_if_absent" -> ~Contains(s, o.v)
    [] OTHER -> TRUE

\* number of elements a lazy bulk mutator changes or appends
Qualifying(o, s) ==
  CASE o.k = "replace_all" -> Count(s, o.v)
    [] o.k = "replace_all_if" -> Cardinality({i \in 1..Len(s) : Pred(o, s[i])})
    [] o.k = "push_back_if_absent_range" -> Len(AppendAbsent(s, o.r)) - Len(s)
    [] OTHER -> 0

\* a mutator that removes every element its predicate is true of
ApplyRemoveAllIf(o, s) == RemoveAllIf(o, s)

\* the change a mutator makes to its private buffer (clear() builds an empty vector
\* where the others copy the current one: what it publishes is the same)
Apply(o, s) ==
  CASE o.k = "push_back" -> Append(s, o.v)
    [] o.k = "erase" -> RemoveAt(s, IndexOf(s, o.v))
    [] o.k = "clear" -> <<>>
    [] o.k = "assign" -> Fill(o.w, o.v)
    [] o.k = "sort" -> StdSort(s)
    [] o.k = "replace_all" -> ReplaceAllSeq(s, o.v, o.w)
    [] o.k = "push_back_if_absent_range" -> AppendAbsent(s, o.r)
    [] o.k = "erase_if" -> RemoveAt(s, FindIf(o, s))
    [] o.k = "replace" -> [s EXCEPT ![IndexOf(s, o.v)] = o.w]
    [] o.k = "replace_if" -> [s EXCEPT ![FindIf(o, s)] = o.w]
    [] o.k = "push_back_if_absent" -> Append(s, o.v)
    [] o.k = "erase_all" -> RemoveAll(s, o.v)
    [] o.k = "erase_all_if" -> RemoveAllIf(o, s)
    [] o.k = "replace_all_if" -> ReplaceAllIfSeq(o, s)
    [] o.k \in {"insert_at", "emplace_at"} ->
         SubSeq(s, 1, o.w) \o <<o.v>> \o SubSeq(s, o.w + 1, Len(s))
    [] o.k = "replace_at" -> [s EXCEPT ![o.w + 1] = o.v]
    [] o.k = "erase_at" -> RemoveAt(s, o.w + 1)
    [] o.k = "erase_range" -> SubSeq(s, 1, o.w) \o SubSeq(s, o.v + 1, Len(s))
    [] o.k \in {"reserve", "shrink_to_fit"} -> s
    [] o.k = "resize" ->
         IF o.w <= Len(s) THEN SubSeq(s, 1, o.w) ELSE s \o Fill(o.w - Len(s), 0)
    [] o.k = "pop_back" -> SubSeq(s, 1, Len(s) - 1)
    [] o.k = "emplace_back" -> Append(s, o.v)
    [] o.k = "stable_sort" -> StdSort(s)
    [] o.k = "stable_sort_by" -> StableSortSeq(o, s)
    [] OTHER -> s

\* the value the call returns (bool as 0 / 1, a count, -1 for void)
Result(o, s) ==
  CASE o.k = "erase" -> 1
    [] o.k \in {"replace_all", "push_back_if_absent_range"} -> Qualifying(o, s)
    [] o.k \in {"erase_if", "replace", "replace_if", "push_back_if_absent"} -> 1
    [] o.k = "replace_all_if" -> Qualifying(o, s)
    [] o.k \in {"erase_all", "erase_all_if"} -> Len(s) - Len(Apply(o, s))
    [] OTHER -> -1

(* ------------------------------- heap --------------------------------- *)
\* st, elems and rc are the allocation: whether it is free, being built or fully
\* constructed, the vector's elements, the count in the control block.  of, ver and
\* excl are history: the container the buffer was built for, its position in that
\* container's order of buffers, and the snapshots that were held before the call
\* that built it began.
FreeSlot == [st |-> "free", elems |-> <<>>, rc |-> 0, of |-> "A", ver |-> 0, excl |-> {}]

\* _M_add_ref_copy: atomic increment of the count in the control block
AddRef(h, b) == [h EXCEPT ![b].rc = @ + 1]

\* _M_release: atomic decrement; the thread that takes the count from 1 to 0
\* destroys the vector and frees the allocation
ReleaseRef(h, b) ==
  IF h[b].rc = 1 THEN [h EXCEPT ![b] = FreeSlot] ELSE [h EXCEPT ![b].rc = @ - 1]

\* std::make_shared<container_type>(src): a new allocation holding a copy
MakeShared(h, n, s, g) ==
  [h EXCEPT ![n] = [st |-> "building", elems |-> s, rc |-> 1,
                    of |-> g.of, ver |-> g.ver, excl |-> g.excl]]

\* operator new: the allocator is first-fit, so the allocation freed last at the
\* lowest address is the first to be handed out again
HasFree(h) == \E n \in Slots : h[n].st = "free"
NewSlot(h) == Min({n \in Slots : h[n].st = "free"})

Elems(c) == heap[cur[c].ptr].elems

\* what a reader sees through a pointer to slot b
Observed(h, b) == h[b].elems

Quiescent == \A t \in Threads : pc[t] = "idle"

NoAcq == [c |-> "A", elems |-> <<>>, ver |-> 0, floor |-> 0]
NoPre == [a |-> <<>>, b |-> <<>>, p |-> Null, q |-> Null, r |-> <<>>]
NoLast == [v |-> 0, ret |-> -1, n0 |-> 0, n1 |-> 0]

\* history of the buffer that thread t builds for container c
Built(t, c) ==
  [of |-> c, ver |-> heap[cur[c].ptr].ver + 1,
   excl |-> {s \in before[t] : acq[s].c = c}]

\* history: the containers as the call finds them once it holds its mutexes
PreOf(t) ==
  [a |-> Elems(op[t].c), b |-> Elems(op[t].d),
   p |-> cur[op[t].c].ptr, q |-> cur[op[t].d].ptr, r |-> raw[t]]

(* ---------------------------- mutators -------------------------------- *)
MutOps ==
  {PushBack("A", 7), Erase("A", 3), Clear("A"), Sort("A"), ReplaceAll("A", 3, 7),
   PushBackIfAbsentRange("A", <<3, 7>>), SwapRaw("A"), Swap("A", "B"), Swap("B", "A")}

\* a thread calls a mutator
BeginWith(t, ops) ==
  /\ pc[t] = "idle"
  /\ calls < MaxCalls
  /\ \E o \in ops :
       /\ op' = [op EXCEPT ![t] = o]
       /\ before' = [before EXCEPT ![t] =
                       {s \in Threads : snap[s] # NullPtr /\ acq[s].c \in {o.c, o.d}}]
       /\ pushed' = [pushed EXCEPT ![t] =
                       IF o.k = "push_back" THEN Append(@, o.v) ELSE @]
  /\ pc' = [pc EXCEPT ![t] = "acquire"]
  /\ calls' = calls + 1
  /\ UNCHANGED <<heap, cur, mutex, copied, copied2, tmp, stmp, snap, iter, raw, ret, sql, ref, cipher, query>>
  /\ UNCHANGED <<acq, prev, pre, last>>

Begin(t) == BeginWith(t, MutOps)

\* a mutator without its lock_guard: it goes on whoever holds _mutex
AcquireNoWait(t) ==
  /\ pc[t] = "acquire"
  /\ mutex' = [mutex EXCEPT ![op[t].c] = t]
  /\ pc' = [pc EXCEPT ![t] = IF op[t].k = "swap" THEN "acquire2" ELSE "copy"]
  /\ pre' = [pre EXCEPT ![t] = IF op[t].k = "swap" THEN @ ELSE PreOf(t)]
  /\ UNCHANGED <<heap, cur, op, copied, copied2, tmp, stmp, snap, iter, raw, ret, calls, sql, ref, cipher, query>>
  /\ UNCHANGED <<acq, prev, before, pushed, last>>

\* std::lock_guard<std::mutex> lock(_mutex)
Acquire(t) ==
  /\ pc[t] = "acquire"
  /\ mutex[op[t].c] = NoThread
  /\ mutex' = [mutex EXCEPT ![op[t].c] = t]
  /\ pc' = [pc EXCEPT ![t] = IF op[t].k = "swap" THEN "acquire2" ELSE "copy"]
  /\ pre' = [pre EXCEPT ![t] = IF op[t].k = "swap" THEN @ ELSE PreOf(t)]
  /\ UNCHANGED <<heap, cur, op, copied, copied2, tmp, stmp, snap, iter, raw, ret, calls, sql, ref, cipher, query>>
  /\ UNCHANGED <<acq, prev, before, pushed, last>>

\* swap taking other._mutex with try_lock and going on without looking at the result
AcquireOtherNoWait(t) ==
  /\ pc[t] = "acquire2"
  /\ mutex' = [mutex EXCEPT ![op[t].d] = IF @ = NoThread THEN t ELSE @]
  /\ pc' = [pc EXCEPT ![t] = "copy"]
  /\ pre' = [pre EXCEPT ![t] = PreOf(t)]
  /\ UNCHANGED <<heap, cur, op, copied, copied2, tmp, stmp, snap, iter, raw, ret, calls, sql, ref, cipher, query>>
  /\ UNCHANGED <<acq, prev, before, pushed, last>>

\* std::lock_guard<std::mutex> other_lock(other._mutex)
AcquireOther(t) ==
  /\ pc[t] = "acquire2"
  /\ mutex[op[t].d] = NoThread
  /\ mutex' = [mutex EXCEPT ![op[t].d] = t]
  /\ pc' = [pc EXCEPT ![t] = "copy"]
  /\ pre' = [pre EXCEPT ![t] = PreOf(t)]
  /\ UNCHANGED <<heap, cur, op, copied, copied2, tmp, stmp, snap, iter, raw, ret, calls, sql, ref, cipher, query>>
  /\ UNCHANGED <<acq, prev, before, pushed, last>>

\* std::lock_guard<std::mutex> other_lock(other._mutex) with other being *this:
\* the thread locks a std::mutex it owns, which is undefined.  The lock blocks
\* forever, or the library detects it and throws std::system_error
\* (resource_deadlock_would_occur), which unlocks _mutex on the way out
RelockOwned(t) ==
  /\ pc[t] = "acquire2"
  /\ mutex[op[t].d] = t
  /\ \/ /\ pc' = [pc EXCEPT ![t] = "deadlock"]
        /\ UNCHANGED ret
     \/ /\ pc' = [pc EXCEPT ![t] = "unlock2"]
        /\ ret' = [ret EXCEPT ![t] = DeadlockError]
  /\ UNCHANGED <<heap, cur, mutex, op, copied, copied2, tmp, stmp, snap, iter, raw, calls, sql, ref, cipher, query>>
  /\ UNCHANGED history

\* a value-search mutator that copies before it searches: on a miss the unchanged
\* copy is published
SearchMissCopies(t) ==
  /\ pc[t] = "copy"
  /\ IsSearch(op[t])
  /\ ~Found(op[t], Elems(op[t].c))
  /\ HasFree(heap)
  /\ LET n == NewSlot(heap) IN
       /\ heap' = [MakeShared(heap, n, Elems(op[t].c), Built(t, op[t].c))
                     EXCEPT ![n].st = "ready"]
       /\ copied' = [copied EXCEPT ![t] = [ptr |-> n, ctl |-> n]]
  /\ ret' = [ret EXCEPT ![t] = 0]
  /\ pc' = [pc EXCEPT ![t] = "pub1"]
  /\ UNCHANGED <<cur, mutex, op, copied2, tmp, stmp, snap, iter, raw, calls, sql, ref, cipher, query>>
  /\ UNCHANGED history

\* a return false that leaves _mutex locked
SearchMissKeepsMutex(t) ==
  /\ pc[t] = "copy"
  /\ IsSearch(op[t])
  /\ ~Found(op[t], Elems(op[t].c))
  /\ ret' = [ret EXCEPT ![t] = 0]
  /\ pc' = [pc EXCEPT ![t] = "idle"]
  /\ op' = [op EXCEPT ![t] = NoOp]
  /\ UNCHANGED <<heap, cur, mutex, copied, copied2, tmp, stmp, snap, iter, raw, calls, sql, ref, cipher, query>>
  /\ UNCHANGED history

\* the search of a value-search mutator finds nothing: return false
SearchMiss(t) ==
  /\ pc[t] = "copy"
  /\ IsSearch(op[t])
  /\ ~Found(op[t], Elems(op[t].c))
  /\ ret' = [ret EXCEPT ![t] = 0]
  /\ pc' = [pc EXCEPT ![t] = "unlock"]
  /\ UNCHANGED <<heap, cur, mutex, op, copied, copied2, tmp, stmp, snap, iter, raw, calls, sql, ref, cipher, query>>
  /\ UNCHANGED history

\* a bulk mutator that copies before its loop: with no element qualifying the
\* unchanged copy is published
LazyCopies(t) ==
  /\ pc[t] = "copy"
  /\ IsLazy(op[t])
  /\ Qualifying(op[t], Elems(op[t].c)) = 0
  /\ HasFree(heap)
  /\ LET n == NewSlot(heap) IN
       /\ heap' = [MakeShared(heap, n, Elems(op[t].c), Built(t, op[t].c))
                     EXCEPT ![n].st = "ready"]
       /\ copied' = [copied EXCEPT ![t] = [ptr |-> n, ctl |-> n]]
  /\ ret' = [ret EXCEPT ![t] = 0]
  /\ pc' = [pc EXCEPT ![t] = "pub1"]
  /\ UNCHANGED <<cur, mutex, op, copied2, tmp, stmp, snap, iter, raw, calls, sql, ref, cipher, query>>
  /\ UNCHANGED history

\* auto copied_container = _shared_container, and no element qualifies: the
\* alias is what gets published
LazyAlias(t) ==
  /\ pc[t] = "copy"
  /\ IsLazy(op[t])
  /\ Qualifying(op[t], Elems(op[t].c)) = 0
  /\ copied' = [copied EXCEPT ![t] = cur[op[t].c]]
  /\ heap' = AddRef(heap, cur[op[t].c].ctl)
  /\ ret' = [ret EXCEPT ![t] = 0]
  /\ pc' = [pc EXCEPT ![t] = "pub1"]
  /\ UNCHANGED <<cur, mutex, op, copied2, tmp, stmp, snap, iter, raw, calls, sql, ref, cipher, query>>
  /\ UNCHANGED history

\* a mutator that changes the current buffer in place: copied_container is an
\* alias of _shared_container
CopyAlias(t) ==
  /\ pc[t] = "copy"
  /\ IsSearch(op[t]) => Found(op[t], Elems(op[t].c))
  /\ IsLazy(op[t]) => Qualifying(op[t], Elems(op[t].c)) > 0
  /\ copied' = [copied EXCEPT ![t] = cur[op[t].c]]
  /\ heap' = AddRef(heap, cur[op[t].c].ctl)
  /\ pc' = [pc EXCEPT ![t] = IF op[t].k = "swap" THEN "copy2" ELSE "apply"]
  /\ UNCHANGED <<cur, mutex, op, copied2, tmp, stmp, snap, iter, raw, ret, calls, sql, ref, cipher, query>>
  /\ UNCHANGED history

\* auto copied_container = std::make_shared<container_type>(*_shared_container)
Copy(t) ==
  /\ pc[t] = "copy"
  /\ IsSearch(op[t]) => Found(op[t], Elems(op[t].c))
  /\ IsLazy(op[t]) => Qualifying(op[t], Elems(op[t].c)) > 0
  /\ HasFree(heap)
  /\ LET n == NewSlot(heap) IN
       /\ heap' = MakeShared(heap, n, Elems(op[t].c), Built(t, op[t].c))
       /\ copied' = [copied EXCEPT ![t] = [ptr |-> n, ctl |-> n]]
  /\ pc' = [pc EXCEPT ![t] = IF op[t].k = "swap" THEN "copy2" ELSE "apply"]
  /\ UNCHANGED <<cur, mutex, op, copied2, tmp, stmp, snap, iter, raw, ret, calls, sql, ref, cipher, query>>
  /\ UNCHANGED history

\* auto other_copied_container = std::make_shared<container_type>(*(other._shared_container))
CopyOther(t) ==
  /\ pc[t] = "copy2"
  /\ HasFree(heap)
  /\ LET n == NewSlot(heap) IN
       /\ heap' = MakeShared(heap, n, Elems(op[t].d), Built(t, op[t].d))
       /\ copied2' = [copied2 EXCEPT ![t] = [ptr |-> n, ctl |-> n]]
  /\ pc' = [pc EXCEPT ![t] = "apply"]
  /\ UNCHANGED <<cur, mutex, op, copied, tmp, stmp, snap, iter, raw, ret, calls, sql, ref, cipher, query>>
  /\ UNCHANGED history

\* a mutator whose lock_guard covers the copy and the change only: _mutex is
\* released before the publish
ApplyChangeThenUnlock(t) ==
  /\ pc[t] = "apply"
  /\ op[t].k \notin {"swap", "swap_raw", "push_back_range", "sort_by"}
  /\ InRange(op[t], heap[copied[t].ptr].elems)
  /\ LET n == copied[t].ptr IN
       /\ heap' = [heap EXCEPT ![n].elems = Apply(op[t], @), ![n].st = "ready"]
       /\ ret' = [ret EXCEPT ![t] = Result(op[t], heap[n].elems)]
  /\ mutex' = [mutex EXCEPT ![op[t].c] = NoThread]
  /\ pc' = [pc EXCEPT ![t] = "pub1"]
  /\ UNCHANGED <<cur, op, copied, copied2, tmp, stmp, snap, iter, raw, calls, sql, ref, cipher, query>>
  /\ UNCHANGED history

\* the change, made to the private copy
ApplyChange(t) ==
  /\ pc[t] = "apply"
  /\ op[t].k \notin {"swap", "swap_raw", "push_back_range", "sort_by"}
  /\ InRange(op[t], heap[copied[t].ptr].elems)
  /\ LET n == copied[t].ptr IN
       /\ heap' = [heap EXCEPT ![n].elems = Apply(op[t], @), ![n].st = "ready"]
       /\ ret' = [ret EXCEPT ![t] = Result(op[t], heap[n].elems)]
  /\ pc' = [pc EXCEPT ![t] = "pub1"]
  /\ UNCHANGED <<cur, mutex, op, copied, copied2, tmp, stmp, snap, iter, raw, calls, sql, ref, cipher, query>>
  /\ UNCHANGED history

\* the loop of push_back(first, last): while (first != last) one value is pushed
\* to the private copy; after the last one the call goes on to publish
ApplyRange(t) ==
  /\ pc[t] = "apply"
  /\ op[t].k = "push_back_range"
  /\ LET n == copied[t].ptr IN
       IF op[t].w < Len(op[t].r)
         THEN /\ heap' = [heap EXCEPT ![n].elems = Append(@, op[t].r[op[t].w + 1])]
              /\ op' = [op EXCEPT ![t].w = @ + 1]
              /\ UNCHANGED pc
         ELSE /\ heap' = [heap EXCEPT ![n].st = "ready"]
              /\ pc' = [pc EXCEPT ![t] = "pub1"]
              /\ UNCHANGED op
  /\ ret' = [ret EXCEPT ![t] = -1]
  /\ UNCHANGED <<cur, mutex, copied, copied2, tmp, stmp, snap, iter, raw, calls, sql, ref, cipher, query>>
  /\ UNCHANGED history

\* std::sort(copied_container->begin(), copied_container->end(), comp)
ApplySort(t) ==
  /\ pc[t] = "apply"
  /\ op[t].k = "sort_by"
  /\ LET n == copied[t].ptr IN
       \E e \in SortOutcomes(op[t], heap[n].elems) :
         heap' = [heap EXCEPT ![n].elems = e, ![n].st = "ready"]
  /\ ret' = [ret EXCEPT ![t] = -1]
  /\ pc' = [pc EXCEPT ![t] = "pub1"]
  /\ UNCHANGED <<cur, mutex, op, copied, copied2, tmp, stmp, snap, iter, raw, calls, sql, ref, cipher, query>>
  /\ UNCHANGED history

\* the change of an index-based mutator whose index is outside the copy: nothing
\* checks the index, the behaviour of the vector is undefined.  The call goes on
\* to publish whatever the copy has become, or the process is stopped by the fault
ApplyOutOfRange(t) ==
  /\ pc[t] = "apply"
  /\ ~InRange(op[t], heap[copied[t].ptr].elems)
  /\ LET n == copied[t].ptr IN
       \/ /\ \E e \in UndefinedOutcomes(op[t], heap[n].elems) :
                heap' = [heap EXCEPT ![n].elems = e, ![n].st = "ready"]
          /\ pc' = [pc EXCEPT ![t] = "pub1"]
       \/ /\ pc' = [pc EXCEPT ![t] = "crashed"]
          /\ UNCHANGED heap
  /\ ret' = [ret EXCEPT ![t] = -1]
  /\ UNCHANGED <<cur, mutex, op, copied, copied2, tmp, stmp, snap, iter, raw, calls, sql, ref, cipher, query>>
  /\ UNCHANGED history

\* copied_container->swap(*copied_container): the two copies are left as they are
ApplySwapSelf(t) ==
  /\ pc[t] = "apply"
  /\ op[t].k = "swap"
  /\ heap' = [heap EXCEPT ![copied[t].ptr].st = "ready", ![copied2[t].ptr].st = "ready"]
  /\ ret' = [ret EXCEPT ![t] = -1]
  /\ pc' = [pc EXCEPT ![t] = "pub1"]
  /\ UNCHANGED <<cur, mutex, op, copied, copied2, tmp, stmp, snap, iter, raw, calls, sql, ref, cipher, query>>
  /\ UNCHANGED history

\* copied_container->swap(*other_copied_container)
ApplySwap(t) ==
  /\ pc[t] = "apply"
  /\ op[t].k = "swap"
  /\ LET n == copied[t].ptr
         m == copied2[t].ptr IN
       heap' = [heap EXCEPT ![n].elems = heap[m].elems, ![n].st = "ready",
                            ![m].elems = heap[n].elems, ![m].st = "ready"]
  /\ ret' = [ret EXCEPT ![t] = -1]
  /\ pc' = [pc EXCEPT ![t] = "pub1"]
  /\ UNCHANGED <<cur, mutex, op, copied, copied2, tmp, stmp, snap, iter, raw, calls, sql, ref, cipher, query>>
  /\ UNCHANGED history

\* copied_container->swap(other) with a raw std::vector of the caller
ApplySwapRaw(t) ==
  /\ pc[t] = "apply"
  /\ op[t].k = "swap_raw"
  /\ LET n == copied[t].ptr IN
       /\ heap' = [heap EXCEPT ![n].elems = raw[t], ![n].st = "ready"]
       /\ raw' = [raw EXCEPT ![t] = heap[n].elems]
  /\ ret' = [ret EXCEPT ![t] = -1]
  /\ pc' = [pc EXCEPT ![t] = "pub1"]
  /\ UNCHANGED <<cur, mutex, op, copied, copied2, tmp, stmp, snap, iter, calls, sql, ref, cipher, query>>
  /\ UNCHANGED history

\* _shared_container = std::move(copied_container), first word: the pointers
\* to the vectors are exchanged
PublishPtr(t) ==
  /\ pc[t] = "pub1"
  /\ tmp' = [tmp EXCEPT ![t].ptr = cur[op[t].c].ptr]
  /\ cur' = [cur EXCEPT ![op[t].c].ptr = copied[t].ptr]
  /\ pc' = [pc EXCEPT ![t] = "pub2"]
  /\ UNCHANGED <<heap, mutex, op, copied, copied2, stmp, snap, iter, raw, ret, calls, sql, ref, cipher, query>>
  /\ UNCHANGED history

\* second word: the pointers to the control blocks are exchanged
PublishCtl(t) ==
  /\ pc[t] = "pub2"
  /\ tmp' = [tmp EXCEPT ![t].ctl = cur[op[t].c].ctl]
  /\ cur' = [cur EXCEPT ![op[t].c].ctl = copied[t].ctl]
  /\ copied' = [copied EXCEPT ![t] = NullPtr]
  /\ pc' = [pc EXCEPT ![t] = "pub3"]
  /\ UNCHANGED <<heap, mutex, op, copied2, stmp, snap, iter, raw, ret, calls, sql, ref, cipher, query>>
  /\ UNCHANGED history

\* the temporary that now holds the replaced pointer is destroyed
PublishRelease(t) ==
  /\ pc[t] = "pub3"
  /\ heap' = ReleaseRef(heap, tmp[t].ctl)
  /\ tmp' = [tmp EXCEPT ![t] = NullPtr]
  /\ pc' = [pc EXCEPT ![t] =
              CASE op[t].k = "swap" -> "opub1"
                [] op[t].k = "move_assign" -> "mvend"
                [] op[t].k = "assign_vector" -> "asgend"
                [] OTHER -> "unlock"]
  /\ UNCHANGED <<cur, mutex, op, copied, copied2, stmp, snap, iter, raw, ret, calls, sql, ref, cipher, query>>
  /\ UNCHANGED history

\* other._shared_container = std::move(other_copied_container)
PublishOtherPtr(t) ==
  /\ pc[t] = "opub1"
  /\ tmp' = [tmp EXCEPT ![t].ptr = cur[op[t].d].ptr]
  /\ cur' = [cur EXCEPT ![op[t].d].ptr = copied2[t].ptr]
  /\ pc' = [pc EXCEPT ![t] = "opub2"]
  /\ UNCHANGED <<heap, mutex, op, copied, copied2, stmp, snap, iter, raw, ret, calls, sql, ref, cipher, query>>
  /\ UNCHANGED history

PublishOtherCtl(t) ==
  /\ pc[t] = "opub2"
  /\ tmp' = [tmp EXCEPT ![t].ctl = cur[op[t].d].ctl]
  /\ cur' = [cur EXCEPT ![op[t].d].ctl = copied2[t].ctl]
  /\ copied2' = [copied2 EXCEPT ![t] = NullPtr]
  /\ pc' = [pc EXCEPT ![t] = "opub3"]
  /\ UNCHANGED <<heap, mutex, op, copied, stmp, snap, iter, raw, ret, calls, sql, ref, cipher, query>>
  /\ UNCHANGED history

PublishOtherRelease(t) ==
  /\ pc[t] = "opub3"
  /\ heap' = ReleaseRef(heap, tmp[t].ctl)
  /\ tmp' = [tmp EXCEPT ![t] = NullPtr]
  /\ pc' = [pc EXCEPT ![t] = "unlock"]
  /\ UNCHANGED <<cur, mutex, op, copied, copied2, stmp, snap, iter, raw, ret, calls, sql, ref, cipher, query>>
  /\ UNCHANGED history

\* the lock_guards are destroyed in reverse order of construction
UnlockOther(t) ==
  /\ pc[t] = "unlock"
  /\ op[t].k = "swap"
  /\ mutex' = [mutex EXCEPT ![op[t].d] = NoThread]
  /\ pc' = [pc EXCEPT ![t] = "unlock2"]
  /\ UNCHANGED <<heap, cur, op, copied, copied2, tmp, stmp, snap, iter, raw, ret, calls, sql, ref, cipher, query>>
  /\ UNCHANGED history

\* a mutator that returns with _mutex still locked
ReturnLocked(t) ==
  /\ \/ pc[t] = "unlock" /\ op[t].k # "swap"
     \/ pc[t] = "unlock2"
  /\ pc' = [pc EXCEPT ![t] = "idle"]
  /\ op' = [op EXCEPT ![t] = NoOp]
  /\ pre' = [pre EXCEPT ![t] = NoPre]
  /\ before' = [before EXCEPT ![t] = {}]
  /\ last' = [c \in Containers |->
               IF c \notin {op[t].c, op[t].d} THEN last[c]
               ELSE IF op[t].k = "push_back_if_absent"
                 THEN [v |-> op[t].v, ret |-> ret[t],
                       n0 |-> Len(pre[t].a), n1 |-> Len(Elems(c))]
                 ELSE NoLast]
  /\ UNCHANGED <<heap, cur, mutex, copied, copied2, tmp, stmp, snap, iter, raw, ret, calls, sql, ref, cipher, query>>
  /\ UNCHANGED <<acq, prev, pushed>>

\* ~lock_guard of _mutex; the call returns
Unlock(t) ==
  /\ \/ pc[t] = "unlock" /\ op[t].k # "swap"
     \/ pc[t] = "unlock2"
  /\ mutex' = [mutex EXCEPT ![op[t].c] = NoThread]
  /\ pc' = [pc EXCEPT ![t] = "idle"]
  /\ op' = [op EXCEPT ![t] = NoOp]
  /\ pre' = [pre EXCEPT ![t] = NoPre]
  /\ before' = [before EXCEPT ![t] = {}]
  /\ last' = [c \in Containers |->
               IF c \notin {op[t].c, op[t].d} THEN last[c]
               ELSE IF op[t].k = "push_back_if_absent"
                 THEN [v |-> op[t].v, ret |-> ret[t],
                       n0 |-> Len(pre[t].a), n1 |-> Len(Elems(c))]
                 ELSE NoLast]
  /\ UNCHANGED <<heap, cur, copied, copied2, tmp, stmp, snap, iter, raw, ret, calls, sql, ref, cipher, query>>
  /\ UNCHANGED <<acq, prev, pushed>>

(* ----------------------------- readers -------------------------------- *)
ReadKinds == {"lock", "size"}

\* lock() / size(): snapshot(_shared_container) copies the member; first word.
\* lock() hands the snapshot to the caller, size() reads through a temporary.
LockPtr(t) ==
  /\ pc[t] = "idle"
  /\ calls < MaxCalls
  /\ \E c \in Containers, k \in ReadKinds :
       /\ k = "lock" => snap[t] = NullPtr
       /\ op' = [op EXCEPT ![t] = Call(k, c)]
       /\ stmp' = [stmp EXCEPT ![t].ptr = cur[c].ptr]
       /\ acq' = [acq EXCEPT ![t] =
                    IF k = "lock"
                      THEN [NoAcq EXCEPT !.c = c, !.floor = heap[cur[c].ctl].ver]
                      ELSE @]
  /\ pc' = [pc EXCEPT ![t] = "lock2"]
  /\ calls' = calls + 1
  /\ UNCHANGED <<heap, cur, mutex, copied, copied2, tmp, snap, iter, raw, ret, sql, ref, cipher, query>>
  /\ UNCHANGED <<prev, before, pre, pushed, last>>

\* lock() that takes _mutex like a mutator: the copy waits while a mutator holds it
LockCtlUnderMutex(t) ==
  /\ pc[t] = "lock2"
  /\ mutex[op[t].c] = NoThread
  /\ stmp' = [stmp EXCEPT ![t].ctl = cur[op[t].c].ctl]
  /\ pc' = [pc EXCEPT ![t] = "lock3"]
  /\ UNCHANGED <<heap, cur, mutex, op, copied, copied2, tmp, snap, iter, raw, ret, calls, sql, ref, cipher, query>>
  /\ UNCHANGED history

\* second word
LockCtl(t) ==
  /\ pc[t] = "lock2"
  /\ stmp' = [stmp EXCEPT ![t].ctl = cur[op[t].c].ctl]
  /\ pc' = [pc EXCEPT ![t] = "lock3"]
  /\ UNCHANGED <<heap, cur, mutex, op, copied, copied2, tmp, snap, iter, raw, ret, calls, sql, ref, cipher, query>>
  /\ UNCHANGED history

\* the count of the control block that was read is incremented; lock() returns
LockRef(t) ==
  /\ pc[t] = "lock3"
  /\ heap' = AddRef(heap, stmp[t].ctl)
  /\ IF op[t].k = "lock"
       THEN /\ snap' = [snap EXCEPT ![t] = stmp[t]]
            /\ stmp' = [stmp EXCEPT ![t] = NullPtr]
            /\ acq' = [acq EXCEPT ![t].elems = Observed(heap, stmp[t].ptr),
                                  ![t].ver = heap[stmp[t].ptr].ver]
            /\ prev' = [prev EXCEPT ![t][op[t].c] = heap[stmp[t].ptr].ver]
            /\ pc' = [pc EXCEPT ![t] = "idle"]
            /\ op' = [op EXCEPT ![t] = NoOp]
       ELSE /\ pc' = [pc EXCEPT ![t] = "read"]
            /\ UNCHANGED <<snap, stmp, acq, prev, op>>
  /\ UNCHANGED <<cur, mutex, copied, copied2, tmp, raw, ret, calls, iter, sql, ref, cipher, query>>
  /\ UNCHANGED <<before, pre, pushed, last>>

\* return lock().size(): the size is read and the temporary snapshot destroyed
ReadSize(t) ==
  /\ pc[t] = "read"
  /\ op[t].k = "size"
  /\ ret' = [ret EXCEPT ![t] = Len(Observed(heap, stmp[t].ptr))]
  /\ heap' = ReleaseRef(heap, stmp[t].ctl)
  /\ stmp' = [stmp EXCEPT ![t] = NullPtr]
  /\ pc' = [pc EXCEPT ![t] = "idle"]
  /\ op' = [op EXCEPT ![t] = NoOp]
  /\ UNCHANGED <<cur, mutex, copied, copied2, tmp, snap, iter, raw, calls, sql, ref, cipher, query>>
  /\ UNCHANGED history

\* ~snapshot(): the snapshot's shared_ptr releases its reference
Release(t) ==
  /\ pc[t] = "idle"
  /\ snap[t] # NullPtr
  /\ heap' = [b \in Slots |-> [ReleaseRef(heap, snap[t].ctl)[b] EXCEPT !.excl = @ \ {t}]]
  /\ snap' = [snap EXCEPT ![t] = NullPtr]
  /\ acq' = [acq EXCEPT ![t] = NoAcq]
  /\ before' = [m \in Threads |-> before[m] \ {t}]
  /\ UNCHANGED <<cur, mutex, pc, op, copied, copied2, tmp, stmp, raw, ret, calls, iter, sql, ref, cipher, query>>
  /\ UNCHANGED <<prev, pre, pushed, last>>

(* ------------------------ bounds-checked access ----------------------- *)
At(c, n) == [Call("at", c) EXCEPT !.w = n]
SnapshotAt(n) == [Call("snapshot_at", "A") EXCEPT !.w = n]
Indexes == 0..4

\* container.at(n): return lock().at(n) begins like lock(), first word
AtBegin(t) ==
  /\ pc[t] = "idle"
  /\ calls < MaxCalls
  /\ \E c \in Containers, n \in Indexes :
       /\ op' = [op EXCEPT ![t] = At(c, n)]
       /\ stmp' = [stmp EXCEPT ![t].ptr = cur[c].ptr]
  /\ pc' = [pc EXCEPT ![t] = "lock2"]
  /\ calls' = calls + 1
  /\ UNCHANGED <<heap, cur, mutex, copied, copied2, tmp, snap, iter, raw, ret, sql, ref, cipher, query>>
  /\ UNCHANGED history

\* vector::at with the result of operator[]: no check of n against size()
UncheckedAt(s, n) == IF n < Len(s) THEN s[n + 1] ELSE 0

\* vector::at(n): throws std::out_of_range unless n < size()
VectorAt(s, n) == IF n < Len(s) THEN s[n + 1] ELSE OutOfRangeError

\* _shared_container->at(n) on the temporary snapshot, which is destroyed as
\* the call returns or as the exception leaves it
ReadAt(t) ==
  /\ pc[t] = "read"
  /\ op[t].k = "at"
  /\ ret' = [ret EXCEPT ![t] = VectorAt(Observed(heap, stmp[t].ptr), op[t].w)]
  /\ heap' = ReleaseRef(heap, stmp[t].ctl)
  /\ stmp' = [stmp EXCEPT ![t] = NullPtr]
  /\ pc' = [pc EXCEPT ![t] = "idle"]
  /\ op' = [op EXCEPT ![t] = NoOp]
  /\ UNCHANGED <<cur, mutex, copied, copied2, tmp, snap, iter, raw, calls, sql, ref, cipher, query>>
  /\ UNCHANGED history

\* the accessors of the container that return const_reference
RefAt(c, n) == [Call("ref_at", c) EXCEPT !.w = n]
RefIndex(c, n) == [Call("ref_index", c) EXCEPT !.w = n]
RefFront(c) == Call("ref_front", c)
RefBack(c) == Call("ref_back", c)
RefOps == {RefAt("A", 0), RefAt("A", 3), RefIndex("A", 2), RefFront("A"), RefBack("A")}

\* const T &r = container.at(n), [n], front(), back(): each begins like lock(),
\* first word
RefBegin(t) ==
  /\ pc[t] = "idle"
  /\ calls < MaxCalls
  /\ ref[t] = NoRef
  /\ \E o \in RefOps :
       /\ op' = [op EXCEPT ![t] = o]
       /\ stmp' = [stmp EXCEPT ![t].ptr = cur[o.c].ptr]
  /\ pc' = [pc EXCEPT ![t] = "lock2"]
  /\ calls' = calls + 1
  /\ UNCHANGED <<heap, cur, mutex, copied, copied2, tmp, snap, iter, raw, ret, sql, ref, cipher, query>>
  /\ UNCHANGED history

\* the offset of the element that at(n), [n], front() and back() designate
RefPos(o, s) ==
  CASE o.k = "ref_front" -> 0
    [] o.k = "ref_back" -> Len(s) - 1
    [] OTHER -> o.w

\* return lock().at(n) and the like: the reference into the vector under the
\* temporary snapshot is the result, and the temporary is destroyed as the call
\* returns. at(n) throws unless n < size(); the others have no check
RefReturn(t) ==
  /\ pc[t] = "read"
  /\ op[t].k \in {"ref_at", "ref_index", "ref_front", "ref_back"}
  /\ LET s == Observed(heap, stmp[t].ptr)
         n == RefPos(op[t], s)
     IN IF n >= 0 /\ n < Len(s)
          THEN /\ ref' = [ref EXCEPT ![t] =
                           [ptr |-> stmp[t].ptr, pos |-> n,
                            of |-> heap[stmp[t].ptr].of, ver |-> heap[stmp[t].ptr].ver]]
               /\ pc' = [pc EXCEPT ![t] = "idle"]
               /\ UNCHANGED ret
          ELSE IF op[t].k = "ref_at"
            THEN /\ ret' = [ret EXCEPT ![t] = OutOfRangeError]
                 /\ pc' = [pc EXCEPT ![t] = "idle"]
                 /\ UNCHANGED ref
            ELSE /\ pc' = [pc EXCEPT ![t] = "crashed"]
                 /\ UNCHANGED <<ref, ret>>
  /\ heap' = ReleaseRef(heap, stmp[t].ctl)
  /\ stmp' = [stmp EXCEPT ![t] = NullPtr]
  /\ op' = [op EXCEPT ![t] = NoOp]
  /\ UNCHANGED <<cur, mutex, copied, copied2, tmp, snap, iter, raw, calls, sql, cipher, query>>
  /\ UNCHANGED history

\* the allocation a reference points into has not been freed
RefAlive(r) ==
  /\ heap[r.ptr].st # "free"
  /\ heap[r.ptr].of = r.of
  /\ heap[r.ptr].ver = r.ver

\* the caller reads through the reference it was given; of a buffer that has
\* been freed the read yields whatever is there
RefRead(t) ==
  /\ pc[t] = "idle"
  /\ ref[t] # NoRef
  /\ LET b == ref[t].ptr IN
       \E x \in (IF RefAlive(ref[t]) THEN {heap[b].elems[ref[t].pos + 1]}
                   ELSE Indeterminate) :
         ret' = [ret EXCEPT ![t] = x]
  /\ ref' = [ref EXCEPT ![t] = NoRef]
  /\ UNCHANGED <<heap, cur, mutex, pc, op, copied, copied2, tmp, stmp, snap, iter, raw, calls, sql, cipher, query>>
  /\ UNCHANGED history

\* snapshot.at(n) on a snapshot the thread holds
SnapshotAtBegin(t) ==
  /\ pc[t] = "idle"
  /\ calls < MaxCalls
  /\ snap[t] # NullPtr
  /\ \E n \in Indexes : op' = [op EXCEPT ![t] = SnapshotAt(n)]
  /\ pc' = [pc EXCEPT ![t] = "snapat"]
  /\ calls' = calls + 1
  /\ UNCHANGED <<heap, cur, mutex, copied, copied2, tmp, stmp, snap, iter, raw, ret, sql, ref, cipher, query>>
  /\ UNCHANGED history

SnapshotAtRead(t) ==
  /\ pc[t] = "snapat"
  /\ ret' = [ret EXCEPT ![t] = VectorAt(Observed(heap, snap[t].ptr), op[t].w)]
  /\ pc' = [pc EXCEPT ![t] = "idle"]
  /\ op' = [op EXCEPT ![t] = NoOp]
  /\ UNCHANGED <<heap, cur, mutex, copied, copied2, tmp, stmp, snap, iter, raw, calls, sql, ref, cipher, query>>
  /\ UNCHANGED history

(* ----------------------------- iterators ------------------------------ *)
Distances == {-1, 1, 2}

\* snapshot.begin() / end(): the snapshot's shared_ptr is copied into the iterator
IterBegin(t) ==
  /\ pc[t] = "idle"
  /\ snap[t] # NullPtr
  /\ iter[t] = NoIter
  /\ LET e == Observed(heap, snap[t].ptr) IN
       \E p \in {0, Len(e)} :
         iter' = [iter EXCEPT ![t] = [ptr |-> snap[t].ptr, ctl |-> snap[t].ctl,
                                      pos |-> p, end |-> Len(e), seen |-> e,
                                      vis |-> <<>>]]
  /\ heap' = AddRef(heap, snap[t].ctl)
  /\ UNCHANGED <<cur, mutex, pc, op, copied, copied2, tmp, stmp, snap, raw, ret, calls, sql, ref, cipher, query>>
  /\ UNCHANGED history

\* ++it, --it, it += n, it -= n: _itr moves, _shared_container stays
IterMove(t) ==
  /\ pc[t] = "idle"
  /\ iter[t] # NoIter
  /\ \E n \in Distances :
       /\ iter[t].pos + n \in 0..iter[t].end
       /\ iter' = [iter EXCEPT ![t].pos = @ + n]
  /\ UNCHANGED <<heap, cur, mutex, pc, op, copied, copied2, tmp, stmp, snap, raw, ret, calls, sql, ref, cipher, query>>
  /\ UNCHANGED history

\* the implicit copy constructor: another thread's iterator is copied
IterCopy(t) ==
  /\ pc[t] = "idle"
  /\ iter[t] = NoIter
  /\ \E u \in Threads \ {t} :
       /\ iter[u] # NoIter
       /\ iter' = [iter EXCEPT ![t] = iter[u]]
       /\ heap' = AddRef(heap, iter[u].ctl)
  /\ UNCHANGED <<cur, mutex, pc, op, copied, copied2, tmp, stmp, snap, raw, ret, calls, sql, ref, cipher, query>>
  /\ UNCHANGED history

\* *it on an iterator that is not at end(): a read through _itr; of a buffer that
\* has been freed the read yields whatever is there
IterDeref(t) ==
  /\ pc[t] = "idle"
  /\ iter[t] # NoIter
  /\ iter[t].pos < iter[t].end
  /\ LET b == iter[t].ptr IN
       \E x \in (IF heap[b].st # "free" /\ iter[t].pos < Len(heap[b].elems)
                   THEN {heap[b].elems[iter[t].pos + 1]}
                   ELSE Indeterminate) :
         ret' = [ret EXCEPT ![t] = x]
  /\ UNCHANGED <<heap, cur, mutex, pc, op, copied, copied2, tmp, stmp, snap, iter, raw, calls, sql, ref, cipher, query>>
  /\ UNCHANGED history

\* it + n, n + it, it - n, it++, it--: each constructs its result with
\* const_random_access_iterator(_shared_container, itr), two lvalues for the two
\* rvalue-reference parameters of the only two-argument constructor: the
\* expression is ill-formed and no iterator is made
IterPlus(t) ==
  /\ pc[t] = "idle"
  /\ iter[t] # NoIter
  /\ ret' = [ret EXCEPT ![t] = IllFormed]
  /\ UNCHANGED <<heap, cur, mutex, pc, op, copied, copied2, tmp, stmp, snap, iter, raw, calls, sql, ref, cipher, query>>
  /\ UNCHANGED history

\* the iterator is destroyed: its shared_ptr releases its reference
IterRelease(t) ==
  /\ pc[t] = "idle"
  /\ iter[t] # NoIter
  /\ heap' = ReleaseRef(heap, iter[t].ctl)
  /\ iter' = [iter EXCEPT ![t] = NoIter]
  /\ UNCHANGED <<cur, mutex, pc, op, copied, copied2, tmp, stmp, snap, raw, ret, calls, sql, ref, cipher, query>>
  /\ UNCHANGED history

(* ------------------------ iteration of a snapshot --------------------- *)
\* for (auto it = S.begin(); it != S.end(); ++it) { ... *it ... }
\* it = S.begin(): the iterator takes its own reference and stands at cbegin()
LoopBegin(t) ==
  /\ pc[t] = "idle"
  /\ snap[t] # NullPtr
  /\ iter[t] = NoIter
  /\ LET e == Observed(heap, snap[t].ptr) IN
       iter' = [iter EXCEPT ![t] = [ptr |-> snap[t].ptr, ctl |-> snap[t].ctl,
                                    pos |-> 0, end |-> Len(e), seen |-> e,
                                    vis |-> <<>>]]
  /\ heap' = AddRef(heap, snap[t].ctl)
  /\ UNCHANGED <<cur, mutex, pc, op, copied, copied2, tmp, stmp, snap, raw, ret, calls, sql, ref, cipher, query>>
  /\ UNCHANGED history

\* it != S.end() holds: the body reads *it, then ++it
LoopVisit(t) ==
  /\ pc[t] = "idle"
  /\ iter[t] # NoIter
  /\ snap[t] # NullPtr
  /\ iter[t].pos < Len(Observed(heap, snap[t].ptr))
  /\ iter' = [iter EXCEPT ![t].pos = @ + 1,
                          ![t].vis = Append(@, Observed(heap, iter[t].ptr)[iter[t].pos + 1])]
  /\ UNCHANGED <<heap, cur, mutex, pc, op, copied, copied2, tmp, stmp, snap, raw, ret, calls, sql, ref, cipher, query>>
  /\ UNCHANGED history

\* it != S.end() holds with it beyond cend(): the vector under the snapshot is no
\* longer the one the iterator started in, and the walk leaves its storage
LoopOverrun(t) ==
  /\ pc[t] = "idle"
  /\ iter[t] # NoIter
  /\ snap[t] # NullPtr
  /\ iter[t].pos > Len(Observed(heap, snap[t].ptr))
  /\ pc' = [pc EXCEPT ![t] = "crashed"]
  /\ UNCHANGED <<heap, cur, mutex, op, copied, copied2, tmp, stmp, snap, iter, raw, ret, calls, sql, ref, cipher, query>>
  /\ UNCHANGED history

\* it == S.end(): the loop is left and the iterator destroyed
LoopEnd(t) ==
  /\ pc[t] = "idle"
  /\ iter[t] # NoIter
  /\ snap[t] # NullPtr
  /\ iter[t].pos = Len(Observed(heap, snap[t].ptr))
  /\ heap' = ReleaseRef(heap, iter[t].ctl)
  /\ iter' = [iter EXCEPT ![t] = NoIter]
  /\ UNCHANGED <<cur, mutex, pc, op, copied, copied2, tmp, stmp, snap, raw, ret, calls, sql, ref, cipher, query>>
  /\ UNCHANGED history

(* --------------------------- comparisons ------------------------------ *)
Compare(c, d) == [Call("compare", c) EXCEPT !.d = d]

\* operator==(lhs, rhs): *(lhs._shared_container), the pointer word of the member
\* of lhs is read, with no snapshot and no mutex
CompareLhs(t) ==
  /\ pc[t] = "idle"
  /\ calls < MaxCalls
  /\ \E c \in Containers, d \in Containers :
       /\ c # d
       /\ op' = [op EXCEPT ![t] = Compare(c, d)]
       /\ stmp' = [stmp EXCEPT ![t].ptr = cur[c].ptr]
  /\ pc' = [pc EXCEPT ![t] = "cmp2"]
  /\ calls' = calls + 1
  /\ UNCHANGED <<heap, cur, mutex, copied, copied2, tmp, snap, iter, raw, ret, sql, ref, cipher, query>>
  /\ UNCHANGED history

\* *(rhs._shared_container) is read and the two vectors are compared
CompareRhs(t) ==
  /\ pc[t] = "cmp2"
  /\ ret' = [ret EXCEPT ![t] =
               IF Observed(heap, stmp[t].ptr) = Observed(heap, cur[op[t].d].ptr)
                 THEN 1 ELSE 0]
  /\ stmp' = [stmp EXCEPT ![t] = NullPtr]
  /\ pc' = [pc EXCEPT ![t] = "idle"]
  /\ op' = [op EXCEPT ![t] = NoOp]
  /\ UNCHANGED <<heap, cur, mutex, copied, copied2, tmp, snap, iter, raw, calls, sql, ref, cipher, query>>
  /\ UNCHANGED history

(* ------------------- move assignment from a container ----------------- *)
MoveAssign(c, d) == [Call("move_assign", c) EXCEPT !.d = d]

\* c = std::move(d): other.lock() copies d's member into a temporary snapshot
MoveBegin(t) ==
  /\ Quiescent
  /\ calls < MaxCalls
  /\ \E c \in Containers, d \in Containers :
       /\ c # d
       /\ op' = [op EXCEPT ![t] = MoveAssign(c, d)]
       /\ stmp' = [stmp EXCEPT ![t].ptr = cur[d].ptr]
       /\ before' = [before EXCEPT ![t] =
                       {s \in Threads : snap[s] # NullPtr /\ acq[s].c = c}]
  /\ pc' = [pc EXCEPT ![t] = "mv2"]
  /\ calls' = calls + 1
  /\ UNCHANGED <<heap, cur, mutex, copied, copied2, tmp, snap, iter, raw, ret, sql, ref, cipher, query>>
  /\ UNCHANGED <<acq, prev, pre, pushed, last>>

MoveLockCtl(t) ==
  /\ pc[t] = "mv2"
  /\ stmp' = [stmp EXCEPT ![t].ctl = cur[op[t].d].ctl]
  /\ pc' = [pc EXCEPT ![t] = "mv3"]
  /\ UNCHANGED <<heap, cur, mutex, op, copied, copied2, tmp, snap, iter, raw, ret, calls, sql, ref, cipher, query>>
  /\ UNCHANGED history

MoveLockRef(t) ==
  /\ pc[t] = "mv3"
  /\ heap' = AddRef(heap, stmp[t].ctl)
  /\ pc' = [pc EXCEPT ![t] = "mvsteal"]
  /\ UNCHANGED <<cur, mutex, op, copied, copied2, tmp, stmp, snap, iter, raw, ret, calls, sql, ref, cipher, query>>
  /\ UNCHANGED history

\* std::make_shared<container_type>(std::move(*(other.lock()._shared_container))):
\* vector's move constructor takes the elements and leaves the source vector empty
MoveSteal(t) ==
  /\ pc[t] = "mvsteal"
  /\ HasFree(heap)
  /\ LET n == NewSlot(heap) IN
       /\ heap' = [MakeShared(heap, n, heap[stmp[t].ptr].elems, Built(t, op[t].c))
                     EXCEPT ![n].st = "ready", ![stmp[t].ptr].elems = <<>>]
       /\ copied' = [copied EXCEPT ![t] = [ptr |-> n, ctl |-> n]]
  /\ pc' = [pc EXCEPT ![t] = "pub1"]
  /\ UNCHANGED <<cur, mutex, op, copied2, tmp, stmp, snap, iter, raw, ret, calls, sql, ref, cipher, query>>
  /\ UNCHANGED history

\* end of the full expression: the temporary snapshot is destroyed
MoveEnd(t) ==
  /\ pc[t] = "mvend"
  /\ heap' = ReleaseRef(heap, stmp[t].ctl)
  /\ stmp' = [stmp EXCEPT ![t] = NullPtr]
  /\ pc' = [pc EXCEPT ![t] = "idle"]
  /\ op' = [op EXCEPT ![t] = NoOp]
  /\ before' = [before EXCEPT ![t] = {}]
  /\ last' = [last EXCEPT ![op[t].c] = NoLast, ![op[t].d] = NoLast]
  /\ UNCHANGED <<cur, mutex, copied, copied2, tmp, snap, iter, raw, ret, calls, sql, ref, cipher, query>>
  /\ UNCHANGED <<acq, prev, pre, pushed>>

(* --------------------- assignment from a vector ----------------------- *)
AssignVector(c) == Call("assign_vector", c)

\* c = x for a container_type x: std::make_shared<container_type>(other); the
\* assignment to _shared_container follows, with no lock_guard
AssignBegin(t) ==
  /\ pc[t] = "idle"
  /\ calls < MaxCalls
  /\ HasFree(heap)
  /\ op' = [op EXCEPT ![t] = AssignVector("A")]
  /\ before' = [before EXCEPT ![t] =
                  {s \in Threads : snap[s] # NullPtr /\ acq[s].c = "A"}]
  /\ LET n == NewSlot(heap) IN
       /\ heap' = [MakeShared(heap, n, raw[t],
                              [of |-> "A", ver |-> heap[cur["A"].ptr].ver + 1,
                               excl |-> before'[t]])
                     EXCEPT ![n].st = "ready"]
       /\ copied' = [copied EXCEPT ![t] = [ptr |-> n, ctl |-> n]]
  /\ pc' = [pc EXCEPT ![t] = "pub1"]
  /\ calls' = calls + 1
  /\ UNCHANGED <<cur, mutex, copied2, tmp, stmp, snap, iter, raw, ret, sql, ref, cipher, query>>
  /\ UNCHANGED <<acq, prev, pre, pushed, last>>

\* return *this
AssignEnd(t) ==
  /\ pc[t] = "asgend"
  /\ pc' = [pc EXCEPT ![t] = "idle"]
  /\ op' = [op EXCEPT ![t] = NoOp]
  /\ before' = [before EXCEPT ![t] = {}]
  /\ last' = [last EXCEPT !["A"] = NoLast]
  /\ UNCHANGED <<heap, cur, mutex, copied, copied2, tmp, stmp, snap, iter, raw, ret, calls, sql, ref, cipher, query>>
  /\ UNCHANGED <<acq, prev, pre, pushed>>

(* ------------------ sqlite_database, sqlite_transaction --------------- *)
Dbs == {"db1", "db2"}
NoDb == "nullptr"
TxSlots == {1, 2}
StoredVersions == 0..2
Requested == 0..3
NoVersion == -1

\* an event of the log: a statement SQLite has executed or a listener call
Event(e, d, a, b) == [e |-> e, d |-> d, a |-> a, b |-> b]

\* a sqlite_transaction object: _db and _in_transaction
NoTx == [alive |-> FALSE, db |-> NoDb, in |-> FALSE]
\* the update_version call: its arguments and locals, transaction._in_transaction
\* (was: the user version stored when the call began)
NoUv == [pc |-> "idle", v |-> 0, old |-> 0, in |-> FALSE, err |-> FALSE, was |-> 0]

\* ver: the user version stored in each database, pend: the user version written
\* in the open transaction, active: whether the connection is in a transaction,
\* up / down: whether _listener.on_upgrade / on_downgrade is set
NoSql ==
  [open |-> FALSE,
   ver |-> [d \in Dbs |-> 0], pend |-> [d \in Dbs |-> NoVersion],
   active |-> [d \in Dbs |-> FALSE],
   up |-> FALSE, down |-> FALSE,
   tx |-> [x \in TxSlots |-> NoTx],
   uv |-> NoUv, log |-> <<>>, err |-> FALSE]

\* open() of the two databases, db1 with the user version its file holds, and
\* set_listener
SqlOpen ==
  /\ ~sql.open
  /\ \E v \in StoredVersions, u \in BOOLEAN, w \in BOOLEAN :
       sql' = [sql EXCEPT !.open = TRUE, !.ver["db1"] = v, !.up = u, !.down = w]
  /\ UNCHANGED <<heap, cur, mutex, pc, op, copied, copied2, tmp, stmp, snap, iter, raw, ret,
               ref, cipher, query>>
  /\ UNCHANGED <<calls, history>>

\* exec_sql("BEGIN ...;") on a connection that is not in a transaction
SqlBegin(s, d) ==
  [s EXCEPT !.active[d] = TRUE, !.log = Append(@, Event("BEGIN", d, 0, 0))]

\* exec_sql("COMMIT;") on a connection in a transaction
SqlCommit(s, d) ==
  [s EXCEPT !.active[d] = FALSE,
            !.ver[d] = IF s.pend[d] # NoVersion THEN s.pend[d] ELSE @,
            !.pend[d] = NoVersion,
            !.log = Append(@, Event("COMMIT", d, 0, 0))]

\* exec_sql("ROLLBACK;"): outside a transaction the statement fails
SqlRollback(s, d) ==
  IF s.active[d]
    THEN [s EXCEPT !.active[d] = FALSE, !.pend[d] = NoVersion,
                   !.log = Append(@, Event("ROLLBACK", d, 0, 0))]
    ELSE s

\* exec_sql("PRAGMA user_version = v;")
SqlWrite(s, d, v) ==
  IF s.active[d]
    THEN [s EXCEPT !.pend[d] = v, !.log = Append(@, Event("write", d, v, 0))]
    ELSE [s EXCEPT !.ver[d] = v, !.log = Append(@, Event("write", d, v, 0))]

\* get_version(): PRAGMA user_version on the same connection
GetVersion(s, d) == IF s.pend[d] # NoVersion THEN s.pend[d] ELSE s.ver[d]

SqlFrame ==
  /\ UNCHANGED <<heap, cur, mutex, pc, op, copied, copied2, tmp, stmp, snap, iter, raw, ret,
               ref, cipher, query>>
  /\ UNCHANGED history

\* create_transaction(mode): the constructor runs BEGIN and sets _in_transaction;
\* when BEGIN fails (the connection is in a transaction, or is busy) the
\* exception leaves the constructor and there is no object
TxnCreate(x) ==
  /\ sql.open
  /\ sql.uv.pc = "idle"
  /\ calls < MaxCalls
  /\ ~sql.tx[x].alive
  /\ \E d \in Dbs, fails \in BOOLEAN :
       IF sql.active[d] \/ fails
         THEN sql' = [sql EXCEPT !.err = TRUE]
         ELSE sql' = [SqlBegin(sql, d) EXCEPT
                        !.tx[x] = [alive |-> TRUE, db |-> d, in |-> TRUE],
                        !.err = FALSE]
  /\ calls' = calls + 1
  /\ SqlFrame

\* commit(): _db->commit_transaction(), then _in_transaction = false; when COMMIT
\* fails the exception leaves commit() before the assignment
TxnCommit(x) ==
  /\ sql.tx[x].alive
  /\ sql.tx[x].db # NoDb
  /\ LET d == sql.tx[x].db IN
       \E fails \in BOOLEAN :
         IF ~sql.active[d] \/ fails
           THEN sql' = [sql EXCEPT !.err = TRUE]
           ELSE sql' = [SqlCommit(sql, d) EXCEPT !.tx[x].in = FALSE, !.err = FALSE]
  /\ UNCHANGED calls
  /\ SqlFrame

\* sqlite_transaction(sqlite_transaction &&other): y is constructed from x
TxnMoveConstruct(x, y) ==
  /\ sql.tx[x].alive
  /\ ~sql.tx[y].alive
  /\ sql' = [sql EXCEPT !.tx[y] = sql.tx[x], !.tx[x] = [NoTx EXCEPT !.alive = TRUE]]
  /\ UNCHANGED calls
  /\ SqlFrame

\* y = std::move(x): _db and _in_transaction of y are overwritten with those of
\* x, then those of x are reset (of y itself when x is y)
TxnMoveAssign(x, y) ==
  /\ sql.tx[x].alive
  /\ sql.tx[y].alive
  /\ sql' = [sql EXCEPT !.tx[y] = sql.tx[x], !.tx[x] = [NoTx EXCEPT !.alive = TRUE]]
  /\ UNCHANGED calls
  /\ SqlFrame

\* ~sqlite_transaction(): ROLLBACK if _in_transaction && _db, its failure ignored
TxnDestroy(x) ==
  /\ sql.tx[x].alive
  /\ LET s == IF sql.tx[x].in /\ sql.tx[x].db # NoDb
                THEN SqlRollback(sql, sql.tx[x].db) ELSE sql IN
       sql' = [s EXCEPT !.tx[x] = NoTx]
  /\ UNCHANGED calls
  /\ SqlFrame

\* update_version(version, mode) on db1 -------------------------------------
\* every upgrade is reported as on_upgrade
ListenerAlwaysUpgrade(old, v) == "on_upgrade"

\* the callback update_version chooses: on_upgrade if old_version < version,
\* on_downgrade if old_version > version
ListenerOf(old, v) == IF old < v THEN "on_upgrade" ELSE "on_downgrade"

ListenerSet(cb) == IF cb = "on_upgrade" THEN sql.up ELSE sql.down

\* the call: version < 1 throws; get_version(); equal versions return
UvCall(v) ==
  /\ sql.open
  /\ sql.uv.pc \in {"idle", "done"}
  /\ calls < MaxCalls
  /\ LET old == GetVersion(sql, "db1")
         u == [NoUv EXCEPT !.v = v, !.was = old] IN
       sql' = [sql EXCEPT
                 !.log = <<>>,
                 !.uv = IF v < 1 THEN [u EXCEPT !.pc = "done", !.err = TRUE]
                        ELSE IF old = v THEN [u EXCEPT !.pc = "done", !.old = old]
                        ELSE [u EXCEPT !.pc = "create", !.old = old]]
  /\ calls' = calls + 1
  /\ SqlFrame

\* auto transaction = create_transaction(mode): when BEGIN fails the exception
\* leaves update_version and no transaction object exists
UvCreate ==
  /\ sql.uv.pc = "create"
  /\ \E fails \in BOOLEAN :
       IF sql.active["db1"] \/ fails
         THEN sql' = [sql EXCEPT !.uv.pc = "done", !.uv.err = TRUE]
         ELSE sql' = [SqlBegin(sql, "db1") EXCEPT !.uv.pc = "listener", !.uv.in = TRUE]
  /\ UNCHANGED calls
  /\ SqlFrame

\* the listener call, skipped when the callback is unset; the callback returns
\* or throws
UvListener ==
  /\ sql.uv.pc = "listener"
  /\ LET cb == ListenerOf(sql.uv.old, sql.uv.v) IN
       IF ListenerSet(cb)
         THEN \E throws \in BOOLEAN :
                sql' = [sql EXCEPT
                          !.log = Append(@, Event(cb, "db1", sql.uv.old, sql.uv.v)),
                          !.uv.pc = IF throws THEN "destroy" ELSE "write",
                          !.uv.err = throws]
         ELSE sql' = [sql EXCEPT !.uv.pc = "write"]
  /\ UNCHANGED calls
  /\ SqlFrame

\* exec_sql("PRAGMA user_version = version;"), which may fail
UvWrite ==
  /\ sql.uv.pc = "write"
  /\ \E fails \in BOOLEAN :
       IF fails
         THEN sql' = [sql EXCEPT !.uv.pc = "destroy", !.uv.err = TRUE]
         ELSE sql' = [SqlWrite(sql, "db1", sql.uv.v) EXCEPT !.uv.pc = "commit"]
  /\ UNCHANGED calls
  /\ SqlFrame

\* transaction.commit(): COMMIT, then _in_transaction = false
UvCommit ==
  /\ sql.uv.pc = "commit"
  /\ \E fails \in BOOLEAN :
       IF fails
         THEN sql' = [sql EXCEPT !.uv.pc = "destroy", !.uv.err = TRUE]
         ELSE sql' = [SqlCommit(sql, "db1") EXCEPT !.uv.pc = "destroy", !.uv.in = FALSE]
  /\ UNCHANGED calls
  /\ SqlFrame

\* a destructor that issues nothing
UvDestroyNoRollback ==
  /\ sql.uv.pc = "destroy"
  /\ sql' = [sql EXCEPT !.uv.pc = "done", !.uv.in = FALSE]
  /\ UNCHANGED calls
  /\ SqlFrame

\* the end of the scope, on return or during unwinding: ~sqlite_transaction()
\* issues ROLLBACK if _in_transaction
UvDestroy ==
  /\ sql.uv.pc = "destroy"
  /\ sql' = [(IF sql.uv.in THEN SqlRollback(sql, "db1") ELSE sql) EXCEPT
               !.uv.pc = "done", !.uv.in = FALSE]
  /\ UNCHANGED calls
  /\ SqlFrame

(* ------------------- cipher_value with xor_cipher --------------------- *)
\* the values of the integral type T of Width bits, as bit patterns
Modulus == 2 ^ Width
Values == 0..(Modulus - 1)

\* operator^ of two values, bit by bit
RECURSIVE Xor(_, _)
Xor(a, b) ==
  IF a = 0 THEN b
  ELSE IF b = 0 THEN a
  ELSE (((a % 2) + (b % 2)) % 2) + 2 * Xor(a \div 2, b \div 2)

\* basic_int_xor_cipher::encrypt: (unencrypted ^ _key) + _salt in T
Encrypt(c, x) == (Xor(x, c.key) + c.salt) % Modulus

\* a decrypt that undoes the two steps in the order encrypt did them
DecryptXorFirst(c, e) == (Xor(e, c.key) + Modulus - c.salt) % Modulus

\* basic_int_xor_cipher::decrypt: (encrypted - _salt) ^ _key in T
Decrypt(c, e) == Xor((e + Modulus - c.salt) % Modulus, c.key)

\* the cipher_value objects: _cipher (key, salt) and _encrypted (plain: history,
\* the value the object was last given)
CipherObjs == {"u", "v"}
NoCipher == [alive |-> FALSE, key |-> 0, salt |-> 0, enc |-> 0, plain |-> 0]
NoCiphers == [o \in CipherObjs |-> NoCipher]

\* operator value_type(): _cipher.decrypt(_encrypted)
Value(o) == Decrypt(cipher[o], cipher[o].enc)

CipherFrame ==
  /\ UNCHANGED <<heap, cur, mutex, pc, op, copied, copied2, tmp, stmp, snap, iter, raw, ret,
                 sql, ref, query>>
  /\ UNCHANGED <<calls, history>>

\* cipher_value(const value_type &value, const cipher_type &cipher = cipher_type()):
\* _cipher is copy-constructed, which draws a fresh key and salt in init(), and
\* _encrypted is _cipher.encrypt(value)
CvConstruct(o) ==
  /\ ~cipher[o].alive
  /\ \E x \in Values, k \in Values, s \in Values :
       cipher' = [cipher EXCEPT ![o] =
                    [alive |-> TRUE, key |-> k, salt |-> s,
                     enc |-> Encrypt([key |-> k, salt |-> s], x), plain |-> x]]
  /\ CipherFrame

\* operator=(const value_type &unencrypted): _encrypted = _cipher.encrypt(unencrypted)
CvAssignValue(o) ==
  /\ cipher[o].alive
  /\ \E x \in Values :
       cipher' = [cipher EXCEPT ![o].enc = Encrypt(cipher[o], x), ![o].plain = x]
  /\ CipherFrame

\* cipher_value(const cipher_value &other): _cipher(other._cipher) draws a fresh
\* key and salt, _encrypted is _cipher.encrypt(static_cast<value_type>(other))
CvCopyConstruct(o, p) ==
  /\ ~cipher[o].alive
  /\ cipher[p].alive
  /\ \E k \in Values, s \in Values :
       cipher' = [cipher EXCEPT ![o] =
                    [alive |-> TRUE, key |-> k, salt |-> s,
                     enc |-> Encrypt([key |-> k, salt |-> s], Value(p)),
                     plain |-> cipher[p].plain]]
  /\ CipherFrame

\* cipher_value(cipher_value &&other): _cipher and _encrypted are moved, which
\* for the key, the salt and the encrypted integer is a copy
CvMoveConstruct(o, p) ==
  /\ ~cipher[o].alive
  /\ cipher[p].alive
  /\ cipher' = [cipher EXCEPT ![o] = cipher[p]]
  /\ CipherFrame

\* operator=(const cipher_value &other): the object keeps its _cipher and
\* encrypts the value of other with it; other may be the object itself
CvCopyAssign(o, p) ==
  /\ cipher[o].alive
  /\ cipher[p].alive
  /\ cipher' = [cipher EXCEPT ![o].enc = Encrypt(cipher[o], Value(p)),
                              ![o].plain = cipher[p].plain]
  /\ CipherFrame

\* operator=(cipher_value &&other): _cipher and _encrypted are moved from other
CvMoveAssign(o, p) ==
  /\ cipher[o].alive
  /\ cipher[p].alive
  /\ cipher' = [cipher EXCEPT ![o] = cipher[p]]
  /\ CipherFrame

\* the object is destroyed
CvDestroy(o) ==
  /\ cipher[o].alive
  /\ cipher' = [cipher EXCEPT ![o] = NoCipher]
  /\ CipherFrame

(* -------------------- sqlite_query, sqlite_iterator ------------------- *)
\* the query and the loop `for (auto it = q.begin(); it != q.end(); ++it) body`:
\* the statement yields rows rows, of which at have been stepped to; sqlite3_step
\* may still answer SQLITE_BUSY busy times, and an error if errs; state and
\* rowIndex are _state and _rowIndex of the iterator; body counts the runs of
\* the loop body and waited the sleeps
NoQuery ==
  [pc |-> "none", rows |-> 0, busy |-> 0, errs |-> FALSE, at |-> 0,
   state |-> "NONE", rowIndex |-> -1, body |-> 0, waited |-> 0]

\* sqlite_query::end(): sqlite_iterator(), _rowIndex -1 and _state SQLITE_DONE
EndIterator == [state |-> "DONE", rowIndex |-> -1]

\* an operator== that compares _rowIndex whatever the states are
IteratorEqByRow(a, b) == a.rowIndex = b.rowIndex

\* sqlite_iterator::operator==
IteratorEq(a, b) ==
  IF a.state = b.state
    THEN IF a.state = "DONE" THEN TRUE ELSE a.rowIndex = b.rowIndex
    ELSE FALSE

\* what sqlite3_step may return on the statement
StepResults(q) ==
  (IF q.busy > 0 THEN {"BUSY"} ELSE {})
    \cup (IF q.errs THEN {"ERROR"} ELSE {})
    \cup (IF q.at < q.rows THEN {"ROW"} ELSE {"DONE"})

QueryFrame ==
  /\ UNCHANGED <<heap, cur, mutex, pc, op, copied, copied2, tmp, stmp, snap, iter, raw, ret,
                 sql, ref, cipher>>
  /\ UNCHANGED <<calls, history>>

\* sqlite_query::begin(): _statement.reset() and sqlite_iterator(_db, handle),
\* whose constructor sets _rowIndex to -1 and calls operator++
QueryBegin ==
  /\ query.pc = "none"
  /\ \E n \in 0..MaxRows, b \in 0..MaxBusy, e \in BOOLEAN :
       query' = [NoQuery EXCEPT !.pc = "step", !.rows = n, !.busy = b, !.errs = e]
  /\ QueryFrame

\* operator++: _state = sqlite3_step(*_stmt); on SQLITE_BUSY the loop sleeps and
\* steps again, on SQLITE_ROW and SQLITE_DONE _rowIndex is incremented, on any
\* other result sqlite_exception is thrown
QueryStep ==
  /\ query.pc = "step"
  /\ \E r \in StepResults(query) :
       query' =
         CASE r = "BUSY" ->
                [query EXCEPT !.state = r, !.busy = @ - 1, !.pc = "sleep"]
           [] r = "ROW" ->
                [query EXCEPT !.state = r, !.at = @ + 1, !.rowIndex = @ + 1, !.pc = "test"]
           [] r = "DONE" ->
                [query EXCEPT !.state = r, !.rowIndex = @ + 1, !.pc = "test"]
           [] OTHER ->
                [query EXCEPT !.state = r, !.pc = "thrown"]
  /\ QueryFrame

\* std::this_thread::sleep_for(busy waiting interval), then sqlite3_step again
QuerySleep ==
  /\ query.pc = "sleep"
  /\ query' = [query EXCEPT !.pc = "step", !.waited = @ + 1]
  /\ QueryFrame

\* it != q.end()
QueryTest ==
  /\ query.pc = "test"
  /\ query' = [query EXCEPT !.pc =
                  IF IteratorEq([state |-> query.state, rowIndex |-> query.rowIndex],
                                EndIterator)
                    THEN "done" ELSE "body"]
  /\ QueryFrame

\* the loop body, then ++it
QueryBody ==
  /\ query.pc = "body"
  /\ query.body <= MaxRows
  /\ query' = [query EXCEPT !.body = @ + 1, !.pc = "step"]
  /\ QueryFrame

(* -------------------------- specifications ---------------------------- *)
\* two containers constructed from initializer lists, a raw vector per thread
InitWith(a, b) ==
  /\ heap = [n \in Slots |->
               IF n = 1 THEN [FreeSlot EXCEPT !.st = "ready", !.elems = a, !.rc = 1,
                                              !.of = "A", !.ver = 1]
               ELSE IF n = 2 THEN [FreeSlot EXCEPT !.st = "ready", !.elems = b, !.rc = 1,
                                                   !.of = "B", !.ver = 1]
               ELSE FreeSlot]
  /\ cur = [c \in Containers |->
              IF c = "A" THEN [ptr |-> 1, ctl |-> 1] ELSE [ptr |-> 2, ctl |-> 2]]
  /\ mutex = [c \in Containers |-> NoThread]
  /\ pc = [t \in Threads |-> "idle"]
  /\ op = [t \in Threads |-> NoOp]
  /\ copied = [t \in Threads |-> NullPtr]
  /\ copied2 = [t \in Threads |-> NullPtr]
  /\ tmp = [t \in Threads |-> NullPtr]
  /\ stmp = [t \in Threads |-> NullPtr]
  /\ snap = [t \in Threads |-> NullPtr]
  /\ iter = [t \in Threads |-> NoIter]
  /\ raw = [t \in Threads |-> <<5, 5>>]
  /\ ret = [t \in Threads |-> -1]
  /\ sql = NoSql
  /\ ref = [t \in Threads |-> NoRef]
  /\ cipher = NoCiphers
  /\ query = NoQuery
  /\ calls = 0
  /\ acq = [t \in Threads |-> NoAcq]
  /\ prev = [t \in Threads |-> [c \in Containers |-> 0]]
  /\ before = [t \in Threads |-> {}]
  /\ pre = [t \in Threads |-> NoPre]
  /\ pushed = [t \in Threads |-> <<>>]
  /\ last = [c \in Containers |-> NoLast]

MutatorStep(t) ==
  \/ Acquire(t) \/ AcquireOther(t)
  \/ SearchMiss(t) \/ LazyAlias(t) \/ Copy(t) \/ CopyOther(t)
  \/ ApplyChange(t) \/ ApplySwap(t) \/ ApplySwapRaw(t)
  \/ PublishPtr(t) \/ PublishCtl(t) \/ PublishRelease(t)
  \/ PublishOtherPtr(t) \/ PublishOtherCtl(t) \/ PublishOtherRelease(t)
  \/ UnlockOther(t) \/ Unlock(t)

ReaderStep(t) == LockPtr(t) \/ LockCtl(t) \/ LockRef(t) \/ ReadSize(t) \/ Release(t)

\* threads call mutators, lock() and size() on the two containers concurrently
Init == InitWith(<<3, 2>>, <<7, 2>>)
Next == \E t \in Threads : Begin(t) \/ MutatorStep(t) \/ ReaderStep(t)
Spec == Init /\ [][Next]_vars

\* threads call mutators concurrently, nobody reads
NextMut == \E t \in Threads : Begin(t) \/ MutatorStep(t)
SpecMut == Init /\ [][NextMut]_vars

\* threads call push_back on A concurrently
PushOps == {PushBack("A", 7), PushBack("A", 11)}
BeginPush(t) == BeginWith(t, PushOps)
InitPush == InitWith(<<2, 3, 5>>, <<>>)
NextPush ==
  \E t \in Threads :
    \/ BeginPush(t) \/ Acquire(t) \/ Copy(t) \/ ApplyChange(t)
    \/ PublishPtr(t) \/ PublishCtl(t) \/ PublishRelease(t) \/ Unlock(t)
SpecPush == InitPush /\ [][NextPush]_vars

\* one call at a time
SeqInit == {<<>>, <<3, 2>>, <<2, 3, 5>>}
SeqThreads == {1, 2}
SeqOps ==
  MutOps \cup {Erase("A", 7), Assign("A", 2, 7), PushBackIfAbsentRange("A", <<7, 7, 3>>)}
BeginSeq(t) == Quiescent /\ BeginWith(t, SeqOps)
LockSeq(t) == Quiescent /\ LockPtr(t)
ReleaseSeq(t) == Quiescent /\ Release(t)
InitSeq == \E a \in SeqInit, b \in SeqInit : InitWith(a, b)
NextSeq ==
  \E t \in SeqThreads :
    \/ BeginSeq(t) \/ MutatorStep(t)
    \/ LockSeq(t) \/ LockCtl(t) \/ LockRef(t) \/ ReadSize(t) \/ ReleaseSeq(t)
SpecSeq == InitSeq /\ [][NextSeq]_vars

\* one call at a time, move assignment between the containers among them
MoveStep(t) == MoveBegin(t) \/ MoveLockCtl(t) \/ MoveLockRef(t) \/ MoveSteal(t) \/ MoveEnd(t)
NextMove == NextSeq \/ \E t \in SeqThreads : MoveStep(t)
SpecMove == InitSeq /\ [][NextMove]_vars

\* threads call push_back and swap while others call lock(), size() and operator==
ReadOps == {PushBack("A", 7), Swap("A", "B")}
BeginRead(t) == BeginWith(t, ReadOps)
ReadStep(t) == ReaderStep(t) \/ CompareLhs(t) \/ CompareRhs(t)
NextRead ==
  \E t \in Threads :
    \/ BeginRead(t) \/ Acquire(t) \/ AcquireOther(t) \/ Copy(t) \/ CopyOther(t)
    \/ ApplyChange(t) \/ ApplySwap(t)
    \/ PublishPtr(t) \/ PublishCtl(t) \/ PublishRelease(t)
    \/ PublishOtherPtr(t) \/ PublishOtherCtl(t) \/ PublishOtherRelease(t)
    \/ UnlockOther(t) \/ Unlock(t)
    \/ ReadStep(t)
SpecRead == Init /\ [][NextRead]_vars

\* threads call A.swap(B) and B.swap(A) concurrently
SwapOps == {Swap("A", "B"), Swap("B", "A")}
BeginSwaps(t) == BeginWith(t, SwapOps)
SwapStep(t) ==
  \/ Acquire(t) \/ AcquireOther(t) \/ Copy(t) \/ CopyOther(t) \/ ApplySwap(t)
  \/ PublishPtr(t) \/ PublishCtl(t) \/ PublishRelease(t)
  \/ PublishOtherPtr(t) \/ PublishOtherCtl(t) \/ PublishOtherRelease(t)
  \/ UnlockOther(t) \/ Unlock(t)
NextSwaps == \E t \in Threads : BeginSwaps(t) \/ SwapStep(t)
SpecSwaps == Init /\ [][NextSwaps]_vars

\* one call at a time: the two swaps, lock() and size()
SeqSwapOps == SwapOps \cup {SwapRaw("A")}
BeginSeqSwap(t) == Quiescent /\ BeginWith(t, SeqSwapOps)
NextSeqSwap ==
  \E t \in SeqThreads :
    \/ BeginSeqSwap(t) \/ SwapStep(t) \/ ApplySwapRaw(t)
    \/ LockSeq(t) \/ LockCtl(t) \/ LockRef(t) \/ ReadSize(t) \/ ReleaseSeq(t)
SpecSeqSwap == InitSeq /\ [][NextSeqSwap]_vars

\* one call at a time: the mutators that search for one element
DupInit == {<<>>, <<1, 3, 3, 5>>, <<2, 5>>}
SearchOps ==
  {Erase("A", 3), Erase("A", 7), EraseIf("A", <<3>>), EraseIf("A", <<7, 1>>),
   Replace("A", 3, 7), ReplaceIf("A", <<5, 7>>, 1),
   PushBackIfAbsent("A", 3), PushBackIfAbsent("A", 7)}
BeginSearch(t) == Quiescent /\ BeginWith(t, SearchOps)
InitSearch == \E a \in DupInit : InitWith(a, <<>>)
NextSearch ==
  \E t \in SeqThreads :
    \/ BeginSearch(t) \/ Acquire(t) \/ SearchMiss(t) \/ Copy(t) \/ ApplyChange(t)
    \/ PublishPtr(t) \/ PublishCtl(t) \/ PublishRelease(t) \/ Unlock(t)
SpecSearch == InitSearch /\ [][NextSearch]_vars

\* one call at a time: the mutators that change every qualifying element
BulkOps ==
  {ReplaceAll("A", 3, 7), ReplaceAll("A", 3, 3), ReplaceAllIf("A", <<3, 5>>, 7),
   EraseAll("A", 3), EraseAll("A", 7), EraseAllIf("A", <<3, 5>>), EraseAllIf("A", <<7>>),
   PushBackIfAbsentRange("A", <<3, 7>>), PushBackIfAbsentRange("A", <<>>)}
BeginBulk(t) == Quiescent /\ BeginWith(t, BulkOps)
NextBulk ==
  \E t \in SeqThreads :
    \/ BeginBulk(t) \/ Acquire(t) \/ LazyAlias(t) \/ Copy(t) \/ ApplyChange(t)
    \/ PublishPtr(t) \/ PublishCtl(t) \/ PublishRelease(t) \/ Unlock(t)
SpecBulk == InitSearch /\ [][NextBulk]_vars

\* one call at a time: the mutators that take an index
IndexOps ==
  {InsertAt("A", 1, 7), InsertAt("A", 5, 7), EmplaceAt("A", 0, 7), EmplaceAt("A", 3, 7),
   ReplaceAt("A", 0, 7), ReplaceAt("A", 4, 7), EraseAt("A", 1), EraseAt("A", 4),
   EraseRange("A", 1, 3), EraseRange("A", 1, 6)}
BeginIndex(t) == Quiescent /\ BeginWith(t, IndexOps)
NextIndex ==
  \E t \in SeqThreads :
    \/ BeginIndex(t) \/ Acquire(t) \/ Copy(t) \/ ApplyChange(t) \/ ApplyOutOfRange(t)
    \/ PublishPtr(t) \/ PublishCtl(t) \/ PublishRelease(t) \/ Unlock(t)
SpecIndex == InitSearch /\ [][NextIndex]_vars

\* one mutator at a time and lock() between mutators, while threads hold, copy,
\* move, read through and destroy snapshots and iterators
IterOps == {PushBack("A", 7), Clear("A")}
BeginIter(t) == Quiescent /\ BeginWith(t, IterOps)
IterStep(t) ==
  \/ Quiescent /\ (IterBegin(t) \/ IterMove(t) \/ IterCopy(t) \/ IterDeref(t) \/ IterPlus(t))
  \/ IterRelease(t)
NextIter ==
  \E t \in SeqThreads :
    \/ BeginIter(t) \/ Acquire(t) \/ Copy(t) \/ ApplyChange(t)
    \/ PublishPtr(t) \/ PublishCtl(t) \/ PublishRelease(t) \/ Unlock(t)
    \/ LockSeq(t) \/ LockCtl(t) \/ LockRef(t) \/ Release(t) \/ IterStep(t)
SpecIter == InitPush /\ [][NextIter]_vars

\* one call at a time: mutators, lock(), container.at(n) and snapshot.at(n)
BeginAt(t) == Quiescent /\ (AtBegin(t) \/ SnapshotAtBegin(t))
NextAt ==
  \E t \in SeqThreads :
    \/ BeginIter(t) \/ Acquire(t) \/ Copy(t) \/ ApplyChange(t)
    \/ PublishPtr(t) \/ PublishCtl(t) \/ PublishRelease(t) \/ Unlock(t)
    \/ LockSeq(t) \/ LockCtl(t) \/ LockRef(t) \/ ReleaseSeq(t)
    \/ BeginAt(t) \/ ReadAt(t) \/ SnapshotAtRead(t)
SpecAt == InitSearch /\ [][NextAt]_vars

\* one call at a time: push_back_if_absent(first, last) with ranges that repeat
\* values and hold values the container has
AbsentOps ==
  {PushBackIfAbsentRange("A", <<7, 3, 7, 9>>), PushBackIfAbsentRange("A", <<3, 3>>),
   PushBackIfAbsentRange("A", <<5, 2>>), PushBackIfAbsentRange("A", <<>>)}
BeginAbsent(t) == Quiescent /\ BeginWith(t, AbsentOps)
NextAbsent ==
  \E t \in SeqThreads :
    \/ BeginAbsent(t) \/ Acquire(t) \/ LazyAlias(t) \/ Copy(t) \/ ApplyChange(t)
    \/ PublishPtr(t) \/ PublishCtl(t) \/ PublishRelease(t) \/ Unlock(t)
SpecAbsent == InitSearch /\ [][NextAbsent]_vars

\* the mutators of the uniform protocol, one call at a time, between lock() and
\* ~snapshot() calls that keep replaced buffers alive or let them be freed
UniformOps ==
  {Assign("A", 2, 3), Reserve("A", 0), ShrinkToFit("A"), Clear("A"),
   InsertAt("A", 0, 7), EmplaceAt("A", 0, 7), ReplaceAt("A", 0, 7), EraseAt("A", 0),
   EraseRange("A", 0, 0), PushBack("A", 7), EmplaceBack("A", 7), PopBack("A"),
   Resize("A", 2), Swap("A", "B"), SwapRaw("A"), Sort("A"), StableSort("A")}
BeginUniform(t) == Quiescent /\ BeginWith(t, UniformOps)
NextUniform ==
  \E t \in SeqThreads :
    \/ BeginUniform(t) \/ SwapStep(t) \/ ApplyChange(t) \/ ApplyOutOfRange(t)
    \/ ApplySwapRaw(t)
    \/ LockSeq(t) \/ LockCtl(t) \/ LockRef(t) \/ ReadSize(t) \/ ReleaseSeq(t)
SpecUniform == InitSearch /\ [][NextUniform]_vars

\* threads push_back, lock() and walk their snapshots concurrently, a thread
\* also pushing from inside its loop
LoopOps == {PushBack("A", 7)}
LoopLock(t) == LockPtr(t) /\ op'[t] = LockCall("A")
LoopRelease(t) == iter[t] = NoIter /\ Release(t)
LoopStep(t) == LoopBegin(t) \/ LoopVisit(t) \/ LoopOverrun(t) \/ LoopEnd(t)
NextLoop ==
  \E t \in Threads :
    \/ BeginWith(t, LoopOps) \/ Acquire(t) \/ Copy(t) \/ ApplyChange(t)
    \/ PublishPtr(t) \/ PublishCtl(t) \/ PublishRelease(t) \/ Unlock(t)
    \/ LoopLock(t) \/ LockCtl(t) \/ LockRef(t) \/ LoopRelease(t) \/ LoopStep(t)
SpecLoop == InitPush /\ [][NextLoop]_vars

\* threads call mutators of one container and size() concurrently; the scheduler
\* is fair: a thread that can take its next step is not held back forever
LiveOps ==
  {PushBack("A", 7), Erase("A", 3), Erase("A", 9), Replace("A", 9, 1), Clear("A")}
LiveRead(t) == LockPtr(t) /\ op'[t] = Call("size", "A")
LiveStep(t) ==
  \/ Acquire(t) \/ SearchMiss(t) \/ Copy(t) \/ ApplyChange(t)
  \/ PublishPtr(t) \/ PublishCtl(t) \/ PublishRelease(t) \/ Unlock(t)
  \/ LockCtl(t) \/ LockRef(t) \/ ReadSize(t)
NextLive == \E t \in Threads : BeginWith(t, LiveOps) \/ LiveRead(t) \/ LiveStep(t)
SpecLive == InitPush /\ [][NextLive]_vars /\ \A t \in Threads : WF_vars(LiveStep(t))

\* threads push ranges and single values and take and drop snapshots concurrently
RangeOps == {PushBackRange("A", <<7, 11>>), PushBack("A", 9)}
NextRange ==
  \E t \in Threads :
    \/ BeginWith(t, RangeOps) \/ Acquire(t) \/ Copy(t) \/ ApplyChange(t) \/ ApplyRange(t)
    \/ PublishPtr(t) \/ PublishCtl(t) \/ PublishRelease(t) \/ Unlock(t)
    \/ LoopLock(t) \/ LockCtl(t) \/ LockRef(t) \/ Release(t)
SpecRange == InitPush /\ [][NextRange]_vars

\* sqlite_transaction objects are created, committed, moved and destroyed
NextTxn ==
  \/ SqlOpen
  \/ \E x \in TxSlots : TxnCreate(x) \/ TxnCommit(x) \/ TxnDestroy(x)
  \/ \E x \in TxSlots, y \in TxSlots : TxnMoveConstruct(x, y) \/ TxnMoveAssign(x, y)
SpecTxn == InitPush /\ [][NextTxn]_vars

\* update_version calls on db1, one after the other
NextVersion ==
  \/ SqlOpen
  \/ \E v \in Requested : UvCall(v)
  \/ UvCreate \/ UvListener \/ UvWrite \/ UvCommit \/ UvDestroy
SpecVersion == InitPush /\ [][NextVersion]_vars

\* one call at a time: the four sorts and push_back, between lock() and
\* ~snapshot() calls
SortOps == {Sort("A"), StableSort("A"), SortBy("A"), StableSortBy("A"), PushBack("A", 12)}
BeginSort(t) == Quiescent /\ BeginWith(t, SortOps)
InitSort == InitWith(<<21, 13, 25, 11>>, <<>>)
NextSort ==
  \E t \in SeqThreads :
    \/ BeginSort(t) \/ Acquire(t) \/ Copy(t) \/ ApplyChange(t) \/ ApplySort(t)
    \/ PublishPtr(t) \/ PublishCtl(t) \/ PublishRelease(t) \/ Unlock(t)
    \/ LockSeq(t) \/ LockCtl(t) \/ LockRef(t) \/ ReadSize(t) \/ ReleaseSeq(t)
SpecSort == InitSort /\ [][NextSort]_vars

\* each thread calls push_back_if_absent(7) once, all at the same time, on a
\* container that does not hold 7
OnceOps == {PushBackIfAbsent("A", 7)}
BeginOnce(t) == ret[t] = -1 /\ BeginWith(t, OnceOps)
NextOnce ==
  \E t \in Threads :
    \/ BeginOnce(t) \/ Acquire(t) \/ SearchMiss(t) \/ Copy(t) \/ ApplyChange(t)
    \/ PublishPtr(t) \/ PublishCtl(t) \/ PublishRelease(t) \/ Unlock(t)
SpecOnce == InitPush /\ [][NextOnce]_vars

\* threads assign a vector to the container and push_back concurrently
AssignOps == {PushBack("A", 7)}
NextAssign ==
  \E t \in Threads :
    \/ BeginWith(t, AssignOps) \/ Acquire(t) \/ Copy(t) \/ ApplyChange(t)
    \/ PublishPtr(t) \/ PublishCtl(t) \/ PublishRelease(t) \/ Unlock(t)
    \/ AssignBegin(t) \/ AssignEnd(t)
SpecAssign == InitPush /\ [][NextAssign]_vars

\* threads call A.swap(A), A.swap(B) and push_back on A, under fair scheduling
SelfOps == {Swap("A", "A"), Swap("A", "B"), PushBack("A", 7)}
SelfStep(t) == SwapStep(t) \/ ApplyChange(t) \/ RelockOwned(t)
NextSelf == \E t \in Threads : BeginWith(t, SelfOps) \/ SelfStep(t)
SpecSelf == Init /\ [][NextSelf]_vars /\ \A t \in Threads : WF_vars(SelfStep(t))

\* threads call size(), erase_at, pop_back and push_back on A, one call after
\* the other on each thread
CallsOps == {EraseAt("A", 2), PopBack("A"), PushBack("A", 7)}
NextCalls ==
  \E t \in Threads :
    \/ BeginWith(t, CallsOps) \/ LiveRead(t)
    \/ Acquire(t) \/ Copy(t) \/ ApplyChange(t) \/ ApplyOutOfRange(t)
    \/ PublishPtr(t) \/ PublishCtl(t) \/ PublishRelease(t) \/ Unlock(t)
    \/ LockCtl(t) \/ LockRef(t) \/ ReadSize(t)
SpecCalls == InitPush /\ [][NextCalls]_vars

\* cipher_value<T, xor_cipher> objects are constructed, assigned, copied, moved
\* and destroyed
NextCipher ==
  \E o \in CipherObjs, p \in CipherObjs :
    \/ CvConstruct(o) \/ CvAssignValue(o) \/ CvDestroy(o)
    \/ CvCopyConstruct(o, p) \/ CvMoveConstruct(o, p)
    \/ CvCopyAssign(o, p) \/ CvMoveAssign(o, p)
SpecCipher == Init /\ [][NextCipher]_vars

\* one loop over a sqlite_query, the thread running it scheduled fairly
NextQuery == QueryBegin \/ QueryStep \/ QuerySleep \/ QueryTest \/ QueryBody
SpecQuery == Init /\ [][NextQuery]_vars /\ WF_vars(NextQuery)

\* threads call push_back on A while others take a reference to an element of A
\* with at(), [], front() or back() and read through it afterwards
NextRef ==
  \E t \in Threads :
    \/ BeginWith(t, AssignOps) \/ Acquire(t) \/ Copy(t) \/ ApplyChange(t)
    \/ PublishPtr(t) \/ PublishCtl(t) \/ PublishRelease(t) \/ Unlock(t)
    \/ RefBegin(t) \/ LockCtl(t) \/ LockRef(t) \/ RefReturn(t) \/ RefRead(t)
SpecRef == InitPush /\ [][NextRef]_vars

(* ------------------------------ claims -------------------------------- *)
Holds(t) == snap[t] # NullPtr

\* C1 (snapshot isolation): a snapshot that lock() has returned shows, whatever
\* mutators have run since, the size and the elements it showed when it was acquired
SnapshotIsolation == \A t \in Threads : Holds(t) => Observed(heap, snap[t].ptr) = acq[t].elems

\* C3 (lock() against a concurrent publish): the snapshot lock() returns refers to
\* one complete buffer of that container, the one before or the one after the
\* publish: not to a buffer still being built, not to the vector of one buffer with
\* the count of another, not to an allocation that has been freed
LockReturnsPublished ==
  \A t \in Threads :
    Holds(t) => /\ snap[t].ptr = snap[t].ctl
                /\ heap[snap[t].ptr].st = "ready"
                /\ heap[snap[t].ptr].of = acq[t].c

\* C6 (the current reference): each container's _shared_container is never null and
\* always designates a fully constructed buffer: not a freed allocation, not a buffer
\* a mutator is still building
CurrentIsBuilt ==
  \A c \in Containers : cur[c].ptr # Null /\ heap[cur[c].ptr].st = "ready"

\* a buffer that a container's current reference or a held snapshot points to
Reachable(b) ==
  \/ \E c \in Containers : cur[c].ptr = b
  \/ \E t \in Threads : snap[t].ptr = b

\* C2 (no in-place mutation): no step of any operation, move assignment from a
\* container included, changes the element sequence of a fully constructed buffer
\* that a current reference or a snapshot points to
PublishedNeverChanges ==
  [][\A b \in Slots :
       (heap[b].st = "ready" /\ Reachable(b) /\ heap'[b].st = "ready")
         => heap'[b].elems = heap[b].elems]_vars

\* number of times v was passed to push_back, over the threads of S
RECURSIVE PushedCount(_, _)
PushedCount(S, v) ==
  IF S = {} THEN 0
  ELSE LET t == CHOOSE x \in S : TRUE IN Count(pushed[t], v) + PushedCount(S \ {t}, v)

InitialA == <<2, 3, 5>>
PushValues == {2, 3, 5, 7, 11}
AllReturned == \A t \in Threads : pc[t] = "idle"

\* C4 (no lost updates): once every concurrent push_back on A has returned, A holds
\* its initial elements followed by the pushed values: its size is the initial size
\* plus the number of calls, and every value occurs as often as it did initially
\* plus once per call that pushed it
NoLostUpdates ==
  AllReturned =>
    /\ Len(Elems("A")) = Len(InitialA) + calls
    /\ SubSeq(Elems("A"), 1, Len(InitialA)) = InitialA
    /\ \A v \in PushValues :
         Count(Elems("A"), v) = Count(InitialA, v) + PushedCount(Threads, v)

\* C4 witness: three threads have each called push_back(7) on [2,3,5] and returned
ThreePushesDone ==
  /\ AllReturned
  /\ \A t \in Threads : pushed[t] = <<7>>
  /\ Elems("A") = <<2, 3, 5, 7, 7, 7>>

\* positions of a mutator between taking and releasing the mutex of its own container
CriticalPcs ==
  {"copy", "copy2", "apply", "pub1", "pub2", "pub3", "opub1", "opub2", "opub3", "unlock"}

\* thread t is between acquisition and release of the mutex of container c
InCritical(t, c) ==
  \/ op[t].c = c /\ pc[t] \in CriticalPcs \cup {"acquire2", "unlock2"}
  \/ op[t].k = "swap" /\ op[t].d = c /\ pc[t] \in CriticalPcs

MutualExclusion ==
  \A c \in Containers : \A t1 \in Threads, t2 \in Threads :
    /\ InCritical(t1, c) => mutex[c] = t1
    /\ (InCritical(t1, c) /\ InCritical(t2, c)) => t1 = t2

\* the current reference of c changes only in a step of the thread inside c's
\* critical section
PublishInsideCritical ==
  \A c \in Containers :
    cur'[c] # cur[c] => \E t \in Threads : InCritical(t, c) /\ pc'[t] # pc[t]

\* the buffer a publish makes current holds the requested change applied to the
\* buffer that was current immediately before
PublishedIsChangeOfCurrent ==
  \A t \in Threads :
    /\ (pc[t] = "pub1" /\ pc'[t] = "pub2") =>
         heap'[cur'[op[t].c].ptr].elems =
           CASE op[t].k = "swap" -> Elems(op[t].d)
             [] op[t].k = "swap_raw" -> pre[t].r
             [] OTHER -> Apply(op[t], Elems(op[t].c))
    /\ (pc[t] = "opub1" /\ pc'[t] = "opub2") =>
         heap'[cur'[op[t].d].ptr].elems = pre[t].a

\* C5 (mutators are serialized): at most one thread is between acquisition and
\* release of a container's mutex, the current reference is read and replaced only
\* inside that section, and each published buffer is the requested change applied to
\* the buffer that was current immediately before the publish
MutatorsSerialized ==
  /\ []MutualExclusion
  /\ [][PublishInsideCritical /\ PublishedIsChangeOfCurrent]_vars

\* C5 witness: erase has just published inside its critical section while another
\* mutator of the same container waits for the mutex
EraseExcludesOther ==
  \E t1 \in Threads, t2 \in Threads :
    /\ t1 # t2
    /\ op[t1].k = "erase" /\ pc[t1] = "pub2" /\ mutex[op[t1].c] = t1
    /\ pc[t2] = "acquire" /\ op[t2].c = op[t1].c

\* C9 witness: A.swap(B) holds A's mutex and waits for B's while B.swap(A) holds B's
\* mutex and waits for A's
SwapDeadlock ==
  \E t1 \in Threads, t2 \in Threads :
    /\ op[t1] = Swap("A", "B") /\ pc[t1] = "acquire2" /\ mutex["A"] = t1
    /\ op[t2] = Swap("B", "A") /\ pc[t2] = "acquire2" /\ mutex["B"] = t2

\* C9 (swap against swap deadlocks): in that state neither swap can take a step, and
\* no step of any thread leads out of it, so neither call ever completes
SwapDeadlockIsForever ==
  /\ [](\A t \in Threads :
          (SwapDeadlock /\ op[t].k = "swap" /\ pc[t] = "acquire2")
            => ~ENABLED MutatorStep(t))
  /\ [][SwapDeadlock => SwapDeadlock']_vars

\* C10 (swap correctness): when A.swap(B) returns, with no other call running, A
\* holds what B held and B what A held when the call took the mutexes; when
\* A.swap(raw) returns A holds what raw held and raw what A held; the snapshots taken
\* before the call still show what they showed, those of the then current buffers the
\* old contents a and b
SwapExchanges ==
  [][\A t \in Threads :
       ((pc[t] \in {"unlock", "unlock2"} /\ pc'[t] = "idle") =>
          /\ op[t].k = "swap" =>
               /\ heap'[cur'[op[t].c].ptr].elems = pre[t].b
               /\ heap'[cur'[op[t].d].ptr].elems = pre[t].a
          /\ op[t].k = "swap_raw" =>
               /\ heap'[cur'[op[t].c].ptr].elems = pre[t].r
               /\ raw'[t] = pre[t].a
          /\ op[t].k \in {"swap", "swap_raw"} =>
               \A s \in before[t] :
                 /\ snap'[s] = snap[s]
                 /\ Observed(heap', snap'[s].ptr) = acq[s].elems
                 /\ snap[s].ptr = pre[t].p => Observed(heap', snap'[s].ptr) = pre[t].a
                 /\ snap[s].ptr = pre[t].q => Observed(heap', snap'[s].ptr) = pre[t].b)]_vars

\* C10 witness: A.swap(B) is about to return, A and B held different non-empty
\* contents, and a snapshot of A taken before the call is still held
SwapAboutToReturn ==
  \E t \in Threads, s \in Threads :
    /\ op[t] = Swap("A", "B") /\ pc[t] = "unlock2"
    /\ pre[t].a # pre[t].b /\ pre[t].a # <<>> /\ pre[t].b # <<>>
    /\ s \in before[t] /\ snap[s].ptr = pre[t].p

\* a snapshot that was held when a mutator call began does not point to the buffer
\* that call builds
BeforeExcludes == \A t \in Threads : Holds(t) => t \notin heap[snap[t].ptr].excl

\* the buffer lock() returns is no older than the one that was current when the
\* lock() call began
AfterIncludes == \A t \in Threads : Holds(t) => acq[t].ver >= acq[t].floor

\* the buffer a lock() returns is no older than the one the same thread's previous
\* lock() on that container returned
LockMonotone ==
  \A t \in Threads :
    (pc[t] = "lock3" /\ op[t].k = "lock" /\ pc'[t] = "idle")
      => prev'[t][op[t].c] >= prev[t][op[t].c]

\* C7 (publish ordering): a snapshot acquired before a mutator call begins never
\* contains that mutation, a snapshot acquired after a publish contains it or a later
\* state, and successive lock() calls of one thread never go back to an older buffer
PublishOrdering ==
  /\ [](BeforeExcludes /\ AfterIncludes)
  /\ [][LockMonotone]_vars

\* positions inside lock(), inside an accessor that reads through lock(), and
\* inside a comparison
ReaderPcs == {"lock2", "lock3", "read", "cmp2"}

\* own steps a read still has to take from a position
StepsLeft(p) ==
  CASE p = "lock2" -> 3
    [] p = "lock3" -> 2
    [] p \in {"read", "cmp2"} -> 1
    [] OTHER -> 0

\* the next step of a read that has begun
ReadOn(t) == LockCtl(t) \/ LockRef(t) \/ ReadSize(t) \/ CompareRhs(t)

\* the step is one of a read by thread t: it begins one, moves on in one, or
\* destroys the snapshot it holds
ReadMoves(t) ==
  \/ pc[t] \in ReaderPcs /\ pc'[t] # pc[t]
  \/ pc[t] = "idle" /\ pc'[t] \in ReaderPcs
  \/ pc[t] = "idle" /\ pc'[t] = "idle" /\ snap[t] # NullPtr /\ snap'[t] = NullPtr

\* a read never waits: whoever holds the mutexes, a thread inside a read can take
\* its next step and an idle thread can begin a read
ReadersNeverWait ==
  \A t \in Threads :
    /\ pc[t] \in ReaderPcs =>
         ENABLED ReadOn(t)
    /\ (pc[t] = "idle" /\ calls < MaxCalls) => ENABLED LockPtr(t) /\ ENABLED CompareLhs(t)
    /\ (pc[t] = "idle" /\ Holds(t)) => ENABLED Release(t)

\* a read is at most three steps of its own, each one nearer to its return
ReadsAreBounded ==
  \A t \in Threads :
    (pc[t] \in ReaderPcs /\ pc'[t] # pc[t]) => StepsLeft(pc'[t]) < StepsLeft(pc[t])

\* a step of a read leaves every mutex alone and leaves every other thread able to
\* take the step of its call, or the release of its snapshot, that it was able to take
ReadsDelayNobody ==
  \A t \in Threads :
    ReadMoves(t) =>
      /\ mutex' = mutex
      /\ \A u \in Threads \ {t} :
           /\ pc'[u] = pc[u]
           /\ (ENABLED MutatorStep(u)) => (ENABLED MutatorStep(u))'
           /\ (ENABLED ReadOn(u)) => (ENABLED ReadOn(u))'
           /\ (ENABLED Release(u)) => (ENABLED Release(u))'

\* C8 (readers are lock-free): lock(), the accessors that read through it and the
\* comparisons never take or wait for a mutex: each completes in a bounded number of
\* its own steps while another thread holds the mutex inside a mutator, and delays
\* neither a mutator nor another reader
ReadersAreLockFree ==
  /\ []ReadersNeverWait
  /\ [][ReadsAreBounded /\ ReadsDelayNobody]_vars

\* C8 witness: a mutator holds A's mutex in the middle of its publish, and a lock()
\* on A has read the pointer that publish has just stored and gone one step further
LockDuringPublish ==
  \E t \in Threads, u \in Threads :
    /\ pc[t] = "pub2" /\ op[t].c = "A" /\ mutex["A"] = t
    /\ pc[u] = "lock3" /\ op[u] = LockCall("A") /\ stmp[u].ptr = copied[t].ptr

\* C11 (a search that misses): erase(value), erase_if, replace and replace_if that
\* find no element, and push_back_if_absent(value) that finds the value, make no
\* copy and publish nothing: from the search to the return the heap and the
\* container's reference stay as they are, the call returns false, and _mutex is
\* free once it has returned
Misses(o, s) ==
  \/ o.k \in {"erase", "replace"} /\ \A i \in 1..Len(s) : s[i] # o.v
  \/ o.k \in {"erase_if", "replace_if"} /\ \A i \in 1..Len(s) : ~Pred(o, s[i])
  \/ o.k = "push_back_if_absent" /\ \E i \in 1..Len(s) : s[i] = o.v

IsBulk(o) == IsLazy(o) \/ o.k \in {"erase_all", "erase_all_if"}
NoneQualifies(o, s) ==
  CASE o.k = "replace_all" -> \A i \in 1..Len(s) : s[i] # o.v
    [] o.k = "replace_all_if" -> \A i \in 1..Len(s) : ~Pred(o, s[i])
    [] o.k = "push_back_if_absent_range" ->
         \A j \in 1..Len(o.r) : \E i \in 1..Len(s) : s[i] = o.r[j]
    [] o.k = "erase_all" -> \A i \in 1..Len(s) : s[i] # o.v
    [] o.k = "erase_all_if" -> \A i \in 1..Len(s) : ~Pred(o, s[i])
    [] OTHER -> FALSE
Returns(t) == pc[t] \in {"unlock", "unlock2"} /\ pc'[t] = "idle"

\* C12 as stated (bulk mutators copy lazily): replace_all, replace_all_if, erase_all,
\* erase_all_if and push_back_if_absent(first, last) that find no qualifying element
\* return 0 and leave the container on the buffer it had
BulkNoMatchKeepsBuffer ==
  [][\A t \in Threads :
       (Returns(t) /\ IsBulk(op[t]) /\ NoneQualifies(op[t], pre[t].a)) =>
         /\ ret[t] = 0
         /\ cur[op[t].c].ptr = pre[t].p]_vars

\* C12 as the code has it: with no qualifying element each of the five returns 0 and
\* leaves the elements as they were; replace_all, replace_all_if and
\* push_back_if_absent(first, last) leave the container on the buffer it had, while
\* erase_all and erase_all_if have published a new buffer with the same elements
BulkNoMatch ==
  [][\A t \in Threads :
       (Returns(t) /\ IsBulk(op[t]) /\ NoneQualifies(op[t], pre[t].a)) =>
         /\ ret[t] = 0
         /\ Elems(op[t].c) = pre[t].a
         /\ cur[op[t].c].ptr = pre[t].p <=> IsLazy(op[t])]_vars

ReplaceAllIfNoMatch ==
  \E t \in Threads :
    /\ pc[t] = "unlock"
    /\ op[t].k = "replace_all_if"
    /\ NoneQualifies(op[t], pre[t].a)
    /\ cur[op[t].c].ptr = pre[t].p

\* C13 as stated (erase_if): erase_if(pred) removes every element pred is true of
\* and returns how many it removed; on [1, 3, 3, 5] with pred true of 3 it leaves
\* [1, 5] and returns 2
EraseIfRemovesEvery ==
  [][\A t \in Threads :
       (Returns(t) /\ op[t].k = "erase_if") =>
         /\ Elems(op[t].c) = SelectSeq(pre[t].a, LAMBDA x : ~Pred(op[t], x))
         /\ ret[t] = Len(pre[t].a) - Len(Elems(op[t].c))]_vars

\* C13 as the code has it: erase_if(pred) removes the first element pred is true of,
\* leaves every other element in place and returns true; with no such element it
\* changes nothing and returns false.  On [1, 3, 3, 5] with pred true of 3 it leaves
\* [1, 3, 5] and returns true
EraseIfRemovesFirst ==
  [][\A t \in Threads :
       (Returns(t) /\ op[t].k = "erase_if") =>
         LET a == pre[t].a
             hits == {i \in 1..Len(a) : Pred(op[t], a[i])} IN
           IF hits = {}
             THEN ret[t] = 0 /\ Elems(op[t].c) = a
             ELSE /\ ret[t] = 1
                  /\ \E i \in hits :
                       /\ \A j \in hits : i <= j
                       /\ Elems(op[t].c) = SubSeq(a, 1, i - 1) \o SubSeq(a, i + 1, Len(a))]_vars

EraseIfLeavesSecondMatch ==
  \E t \in Threads :
    /\ pc[t] = "unlock"
    /\ op[t] = EraseIf("A", <<3>>)
    /\ pre[t].a = <<1, 3, 3, 5>>
    /\ Elems("A") = <<1, 3, 5>>
    /\ ret[t] = 1

\* C14 (index out of range): insert_at, emplace_at, replace_at, erase_at and
\* erase_range called with an index outside the buffer signal an error to the
\* caller and leave the container as it was: the call ends with the out-of-range
\* error, the container's reference is the one the call found, with the same
\* elements, and _mutex is free
OutOfRangeIsSignalled ==
  [][\A t \in Threads :
       (pc[t] \in {"apply", "unlock"} /\ ~InRange(op[t], pre[t].a)) =>
         /\ pc'[t] # "crashed"
         /\ pc'[t] = "idle" =>
              /\ ret[t] = OutOfRangeError
              /\ cur[op[t].c] = [ptr |-> pre[t].p, ctl |-> pre[t].p]
              /\ Elems(op[t].c) = pre[t].a
              /\ mutex'[op[t].c] = NoThread]_vars

\* C15 (replace_all, replace_all_if): the call returns the number of elements of the
\* buffer it found under _mutex that equal old (that pred is true of); the buffer
\* it leaves has the same size, holds new where such an element was and the
\* element that was there everywhere else, so that no element equals old unless
\* new = old
ReplaceAllCounts ==
  [][\A t \in Threads :
       (Returns(t) /\ op[t].k \in {"replace_all", "replace_all_if"}) =>
         LET a == pre[t].a
             e == Elems(op[t].c)
             hit(i) == IF op[t].k = "replace_all" THEN a[i] = op[t].v ELSE Pred(op[t], a[i]) IN
           /\ ret[t] = Cardinality({i \in 1..Len(a) : hit(i)})
           /\ Len(e) = Len(a)
           /\ \A i \in 1..Len(a) : e[i] = IF hit(i) THEN op[t].w ELSE a[i]
           /\ (op[t].k = "replace_all" /\ op[t].w # op[t].v) =>
                \A i \in 1..Len(e) : e[i] # op[t].v]_vars

ReplaceAllReplacedTwo ==
  \E t \in Threads :
    /\ pc[t] = "unlock"
    /\ op[t] = ReplaceAll("A", 3, 7)
    /\ pre[t].a = <<1, 3, 3, 5>>
    /\ Elems("A") = <<1, 7, 7, 5>>
    /\ ret[t] = 2

\* C16 (push_back_if_absent is idempotent): when push_back_if_absent(v) returns on a
\* container whose last mutator call was push_back_if_absent(v) too, it returns
\* false and leaves the size the first call left, which that call had grown by
\* one when it returned true and not at all when it returned false
SecondPushBackIfAbsent ==
  [][\A t \in Threads :
       (/\ Returns(t)
        /\ op[t].k = "push_back_if_absent"
        /\ last[op[t].c].ret # -1
        /\ last[op[t].c].v = op[t].v) =>
         /\ ret[t] = 0
         /\ Len(Elems(op[t].c)) = last[op[t].c].n1
         /\ last[op[t].c].n1 = last[op[t].c].n0 + last[op[t].c].ret
         /\ last[op[t].c].ret \in {0, 1}]_vars

PushedThenPresent ==
  \E t \in Threads :
    /\ pc[t] = "unlock"
    /\ op[t] = PushBackIfAbsent("A", 7)
    /\ last["A"].v = 7
    /\ last["A"].ret = 1
    /\ ret[t] = 0

\* the shared_ptr objects whose control block pointer designates slot b: the
\* containers' members, snapshots, iterators, and the locals of calls in progress
\* (a reader's copy counts once it has incremented the count)
StmpOwns(t) == pc[t] \notin {"idle", "lock2", "lock3", "mv2", "mv3", "cmp2"}
HolderCount(b) ==
  Cardinality({c \in Containers : cur[c].ctl = b})
  + Cardinality({t \in Threads : snap[t].ctl = b})
  + Cardinality({t \in Threads : iter[t].ctl = b})
  + Cardinality({t \in Threads : copied[t].ctl = b})
  + Cardinality({t \in Threads : copied2[t].ctl = b})
  + Cardinality({t \in Threads : tmp[t].ctl = b})
  + Cardinality({t \in Threads : stmp[t].ctl = b /\ StmpOwns(t)})

\* C17 (reference counting): the count of every live buffer is the number of its
\* holders and is not zero, and a buffer that has been freed has no holder
RefCountIsHolders ==
  \A b \in Slots :
    IF heap[b].st = "free"
      THEN HolderCount(b) = 0
      ELSE heap[b].rc = HolderCount(b) /\ heap[b].rc > 0

\* an iterator is bound to a live buffer that holds what it held when the
\* iterator was made
IteratorBound(t) ==
  iter[t] # NoIter =>
    /\ heap[iter[t].ptr].st # "free"
    /\ iter[t].ctl = iter[t].ptr
    /\ Observed(heap, iter[t].ptr) = iter[t].seen

\* an iterator that a step makes or changes is bound to the buffer of the
\* snapshot or iterator it comes from
IteratorDerived(t) ==
  /\ (iter[t] # NoIter /\ iter'[t] # NoIter) =>
       iter'[t] = [iter[t] EXCEPT !.pos = iter'[t].pos]
  /\ (iter[t] = NoIter /\ iter'[t] # NoIter) =>
       \/ snap[t].ptr = iter'[t].ptr /\ snap[t].ctl = iter'[t].ctl
       \/ \E u \in Threads : iter[u] = iter'[t]

\* what an expression on an iterator yields, *it or an iterator derived from it
IteratorYields(t) ==
  (pc[t] = "idle" /\ pc'[t] = "idle" /\ iter[t] # NoIter /\ ret'[t] # ret[t]) =>
    ret'[t] = iter[t].seen[iter[t].pos + 1]

\* C18 (iterators keep their buffer): an iterator holds its own reference to the
\* buffer it walks, so that after its snapshot is destroyed and new buffers are
\* published the buffer is alive and *it is the element it was at the start;
\* copies of the iterator and the iterators ++, --, + n and - n derive from it
\* are bound to the same buffer
IteratorsStayBound ==
  /\ [](\A t \in Threads : IteratorBound(t))
  /\ [][\A t \in Threads : IteratorDerived(t) /\ IteratorYields(t)]_vars

\* C19 (comparison operators): operator== and its siblings hold, for the whole
\* comparison, a reference to each buffer they compare, so that no mutator frees
\* a buffer under comparison: the buffer a comparison has read the address of
\* is alive until the comparison is done
ComparedBufferIsHeld ==
  \A t \in Threads : pc[t] = "cmp2" => heap[stmp[t].ptr].st # "free"

\* C20 (bounds-checked access): container.at(n) and snapshot.at(n) end with the
\* out-of-range error when n is not below the size of the buffer they read, the
\* container's current one and the snapshot's, and return its n-th element when
\* it is; either way no buffer, no container and no snapshot is changed
AtReads(t, s) ==
  /\ ret'[t] = IF op[t].w >= Len(s) THEN OutOfRangeError ELSE s[op[t].w + 1]
  /\ cur' = cur
  /\ snap' = snap
  /\ \A b \in Slots : heap'[b].st = heap[b].st /\ heap'[b].elems = heap[b].elems
  /\ heap'[cur[op[t].c].ptr].rc = Cardinality({u \in Threads : snap[u].ctl = cur[op[t].c].ptr}) + 1

AtChecksBounds ==
  [][\A t \in Threads :
       /\ (pc[t] = "read" /\ op[t].k = "at") => AtReads(t, Elems(op[t].c))
       /\ pc[t] = "snapat" => AtReads(t, acq[t].elems)]_vars

AtReportedOutOfRange ==
  \E t \in Threads, u \in Threads :
    /\ ret[t] = OutOfRangeError
    /\ Holds(u)
    /\ pc[u] = "snapat"
    /\ op[u].w < Len(acq[u].elems)

\* C23 (sqlite_transaction RAII): a transaction that has been begun and not yet
\* ended by COMMIT or ROLLBACK is owned by a sqlite_transaction object, which will
\* roll it back when it is destroyed: no construction, move or destruction
\* leaves a begun transaction without an owner
TransactionsAreOwned ==
  \A d \in Dbs :
    sql.active[d] =>
      \E x \in TxSlots : sql.tx[x].alive /\ sql.tx[x].db = d /\ sql.tx[x].in

\* the events of an update_version call that changes the version from old to v
ListenerCall(old, v) ==
  IF ListenerSet(IF old < v THEN "on_upgrade" ELSE "on_downgrade")
    THEN <<Event(IF old < v THEN "on_upgrade" ELSE "on_downgrade", "db1", old, v)>>
    ELSE <<>>

\* C24 (update_version): a call that returns has done nothing when v is the
\* stored version, and has otherwise executed exactly BEGIN, the one listener
\* call (on_upgrade iff old < v, on_downgrade iff old > v, with (db, old, v),
\* none when the callback is unset), the write of v and COMMIT, in this order,
\* after which get_version() is v
UpdateVersionSequence ==
  (sql.uv.pc = "done" /\ ~sql.uv.err) =>
    LET old == sql.uv.was
        v == sql.uv.v IN
      /\ GetVersion(sql, "db1") = v
      /\ ~sql.active["db1"]
      /\ sql.log = IF old = v THEN <<>>
                   ELSE <<Event("BEGIN", "db1", 0, 0)>> \o ListenerCall(old, v)
                        \o <<Event("write", "db1", v, 0), Event("COMMIT", "db1", 0, 0)>>

DowngradeReturned ==
  /\ sql.uv.pc = "done" /\ ~sql.uv.err
  /\ sql.uv.was > sql.uv.v
  /\ sql.down
  /\ Len(sql.log) = 4

SameVersionReturned ==
  /\ sql.uv.pc = "done" /\ ~sql.uv.err
  /\ sql.uv.was = sql.uv.v

HasEvent(e) == \E i \in 1..Len(sql.log) : sql.log[i].e = e

WriteFailed ==
  /\ sql.uv.pc = "done" /\ sql.uv.err
  /\ sql.uv.v >= 1
  /\ Len(sql.log) = 2
  /\ ~sql.up /\ ~sql.down

\* C21 (iteration of a snapshot): while mutators run, a loop from S.begin() to
\* S.end() visits the elements S held when it was acquired, in order and each
\* once, and is over when it has visited them all; S.end() - S.begin() is
\* S.size()
LoopVisitsSnapshot ==
  \A t \in Threads :
    iter[t] # NoIter =>
      /\ pc[t] # "crashed"
      /\ iter[t].end = Len(acq[t].elems)
      /\ iter[t].pos <= Len(acq[t].elems)
      /\ iter[t].vis = SubSeq(acq[t].elems, 1, iter[t].pos)
      /\ ENABLED LoopEnd(t) => iter[t].vis = acq[t].elems

\* C22 (single-container calls complete): under fair scheduling every reader
\* call and every mutator call on one container returns, and a thread that has
\* returned, by whichever exit path, holds no mutex
CallsReturn ==
  /\ [](\A t \in Threads : pc[t] = "idle" => \A c \in Containers : mutex[c] # t)
  /\ \A t \in Threads : (pc[t] # "idle") ~> (pc[t] = "idle")

\* a mutator waits for the mutex that a value-search mutator, about to return
\* false, still holds
WaitsForEarlyReturn ==
  \E t \in Threads, u \in Threads :
    /\ pc[t] = "unlock" /\ IsSearch(op[t]) /\ ret[t] = 0 /\ mutex["A"] = t
    /\ pc[u] = "acquire"

\* the buffer that a step publishes on container c is one the call has built:
\* later in the container's order of buffers than the one it replaces, at
\* another address than the replaced buffer and than every earlier buffer a
\* snapshot keeps alive
FreshOn(c) ==
  cur'[c].ptr # cur[c].ptr =>
    /\ heap[cur'[c].ptr].of = c
    /\ heap[cur'[c].ptr].ver > heap[cur[c].ptr].ver
    /\ \A s \in Threads : snap[s] # NullPtr => snap[s].ptr # cur'[c].ptr
    /\ \A d \in Containers : cur[d].ptr # cur'[c].ptr

\* C26 (fresh buffer per call): every call of a uniform-protocol mutator, from
\* assign to stable_sort, replaces the current buffer of its container by a
\* buffer built in that call, which is none of the buffers published before,
\* also when its contents equal those of the buffer it replaces
EveryCallPublishesFresh ==
  [][\A t \in Threads :
       /\ (pc[t] = "pub1" /\ pc'[t] = "pub2") =>
            cur'[op[t].c].ptr # cur[op[t].c].ptr /\ FreshOn(op[t].c)
       /\ (pc[t] = "opub1" /\ pc'[t] = "opub2") =>
            cur'[op[t].d].ptr # cur[op[t].d].ptr /\ FreshOn(op[t].d)
       /\ Returns(t) =>
            /\ cur[op[t].c].ptr # pre[t].p
            /\ op[t].k = "swap" => cur[op[t].d].ptr # pre[t].q]_vars

\* reserve(0) is about to return: it has published a buffer with the contents
\* of the one it found
ReserveKeptContents ==
  \E t \in Threads :
    /\ pc[t] = "unlock" /\ op[t] = Reserve("A", 0)
    /\ Elems("A") = pre[t].a /\ cur["A"].ptr # pre[t].p

\* what a call looks for: the value of erase / replace, the predicate of
\* erase_if / replace_if
Matches(o, x) == IF o.k \in {"erase", "replace"} THEN x = o.v ELSE Pred(o, x)

\* C27 (single-match mutators): erase, erase_if, replace and replace_if act on
\* the lowest-index match of the buffer found at lock acquisition: erase removes
\* it (size - 1), replace overwrites it, the other elements keep value and order,
\* and the call returns true iff there was a match
FirstMatchOnly ==
  \A t \in Threads :
    (pc[t] = "unlock" /\ op[t].k \in {"erase", "erase_if", "replace", "replace_if"}) =>
      LET a == pre[t].a
          e == Elems(op[t].c)
          M == {i \in 1..Len(a) : Matches(op[t], a[i])} IN
        /\ ret[t] = IF M = {} THEN 0 ELSE 1
        /\ M = {} => e = a /\ cur[op[t].c].ptr = pre[t].p
        /\ M # {} =>
             LET m == CHOOSE i \in M : \A j \in M : i <= j IN
               IF op[t].k \in {"erase", "erase_if"}
                 THEN /\ Len(e) = Len(a) - 1
                      /\ \A i \in 1..Len(e) : e[i] = IF i < m THEN a[i] ELSE a[i + 1]
                 ELSE /\ Len(e) = Len(a)
                      /\ \A i \in 1..Len(e) : e[i] = IF i = m THEN op[t].w ELSE a[i]

ReplacedFirstOfTwo ==
  \E t \in Threads :
    /\ pc[t] = "unlock" /\ op[t] = Replace("A", 3, 7)
    /\ pre[t].a = <<1, 3, 3, 5>> /\ Elems("A") = <<1, 7, 3, 5>> /\ ret[t] = 1

\* what erase_all / erase_all_if removes
Erased(o, x) == IF o.k = "erase_all" THEN x = o.v ELSE Pred(o, x)

\* C28 (erase_all, erase_all_if): the call returns the number of matching
\* elements of the buffer found at lock acquisition; in the buffer it publishes
\* no element matches, the size is smaller by the returned count and the
\* elements that remain keep their values and their order
EraseAllCounts ==
  \A t \in Threads :
    (pc[t] = "unlock" /\ op[t].k \in {"erase_all", "erase_all_if"}) =>
      LET a == pre[t].a
          e == Elems(op[t].c)
          M == {i \in 1..Len(a) : Erased(op[t], a[i])} IN
        /\ ret[t] = Cardinality(M)
        /\ Len(e) = Len(a) - ret[t]
        /\ \A i \in 1..Len(e) : ~Erased(op[t], e[i])
        /\ \A i \in (1..Len(a)) \ M :
             e[i - Cardinality({j \in M : j < i})] = a[i]

ErasedBothThrees ==
  \E t \in Threads :
    /\ pc[t] = "unlock" /\ op[t] = EraseAll("A", 3)
    /\ pre[t].a = <<1, 3, 3, 5>> /\ Elems("A") = <<1, 5>> /\ ret[t] = 2

\* position of the first occurrence of x in the range r
FirstIn(r, x) == CHOOSE i \in 1..Len(r) : r[i] = x /\ \A j \in 1..(i - 1) : r[j] # x

\* C29 (push_back_if_absent(first, last)): the call appends, in range order,
\* each value of the range that the container did not hold and that the call
\* has not appended already, and returns the number appended: a value the range
\* repeats is appended once, the elements found keep their places, and the new
\* size is the old size plus the returned count
AppendsAbsentOnce ==
  \A t \in Threads :
    (pc[t] = "unlock" /\ op[t].k = "push_back_if_absent_range") =>
      LET a == pre[t].a
          e == Elems(op[t].c)
          r == op[t].r
          p == SubSeq(e, Len(a) + 1, Len(e)) IN
        /\ Len(e) = Len(a) + ret[t]
        /\ SubSeq(e, 1, Len(a)) = a
        /\ \A i \in 1..Len(p) : ~Contains(a, p[i]) /\ Contains(r, p[i])
        /\ \A i \in 1..Len(p), j \in 1..Len(p) :
             i < j => p[i] # p[j] /\ FirstIn(r, p[i]) < FirstIn(r, p[j])
        /\ \A i \in 1..Len(r) : Contains(a, r[i]) \/ Contains(p, r[i])

AppendedRepeatedOnce ==
  \E t \in Threads :
    /\ pc[t] = "unlock" /\ op[t] = PushBackIfAbsentRange("A", <<7, 3, 7, 9>>)
    /\ pre[t].a = <<1, 3, 3, 5>> /\ Elems("A") = <<1, 3, 3, 5, 7, 9>> /\ ret[t] = 2

\* every 7 of the sequence e is followed by its 11 and every 11 preceded by its
\* 7: each range <<7, 11>> is in e whole, with nothing inside it
RangesWhole(e) ==
  /\ \A i \in 1..Len(e) : e[i] = 7 => (i < Len(e) /\ e[i + 1] = 11)
  /\ \A i \in 1..Len(e) : e[i] = 11 => (i > 1 /\ e[i - 1] = 7)

\* the publish side: the buffer a container publishes holds each range whole
CurrentNeverHalfApplied == \A c \in Containers : RangesWhole(Elems(c))

\* C30 (multi-element mutators take effect in one publish): the range that
\* push_back(first, last) appends is never observable in part: the current
\* buffer and every snapshot hold it whole or not at all, with no element of
\* another call inside it
RangeNeverHalfApplied ==
  /\ CurrentNeverHalfApplied
  /\ \A t \in Threads : snap[t] # NullPtr => RangesWhole(Observed(heap, snap[t].ptr))

IsSort(o) == o.k \in {"sort", "stable_sort", "sort_by", "stable_sort_by"}

\* neither element is ordered before the other by the ordering of the call
Equivalent(o, x, y) == ~Comp(o, x, y) /\ ~Comp(o, y, x)

\* C31 (sort, stable_sort): the buffer a sort publishes is a permutation of the
\* buffer it found, ascending in the ordering of the call; after stable_sort
\* equivalent elements are in the order they had; the snapshots that are held
\* show what they showed when they were acquired
SortPublishesSorted ==
  \A t \in Threads :
    (pc[t] = "unlock" /\ IsSort(op[t])) =>
      LET a == pre[t].a
          e == Elems(op[t].c) IN
        /\ Len(e) = Len(a)
        /\ \A i \in 1..Len(a) : Count(e, a[i]) = Count(a, a[i])
        /\ \A i \in 1..Len(e), j \in 1..Len(e) : i < j => ~Comp(op[t], e[j], e[i])
        /\ op[t].k \in {"stable_sort", "stable_sort_by"} =>
             \A i \in 1..Len(a) :
               SelectSeq(e, LAMBDA x : Equivalent(op[t], x, a[i]))
                 = SelectSeq(a, LAMBDA x : Equivalent(op[t], x, a[i]))
        /\ \A u \in Threads :
             snap[u] # NullPtr => Observed(heap, snap[u].ptr) = acq[u].elems

StableSortKeptOrder ==
  \E t \in Threads, u \in Threads :
    /\ pc[t] = "unlock" /\ op[t] = StableSortBy("A")
    /\ pre[t].a = <<21, 13, 25, 11>> /\ Elems("A") = <<13, 11, 21, 25>>
    /\ snap[u] # NullPtr /\ Observed(heap, snap[u].ptr) = <<21, 13, 25, 11>>

\* the calls that have found 7 absent and return true
ReturnTrue == {t \in Threads : ret[t] = 1}

\* C32 (push_back_if_absent is an atomic check-and-append): of the concurrent
\* calls push_back_if_absent(7) on a container without 7 exactly one returns
\* true, the others return false, and the container ends up with one 7
ExactlyOneAppends ==
  /\ \A c \in Containers : Count(Elems(c), 7) <= 1
  /\ Cardinality(ReturnTrue) <= 1
  /\ ((\A t \in Threads : pc[t] = "idle") /\ calls > 0) =>
       /\ Count(Elems("A"), 7) = 1
       /\ Cardinality(ReturnTrue) = 1
       /\ Cardinality({t \in Threads : ret[t] = 0}) = calls - 1

AllCalledOneAppended ==
  /\ \A t \in Threads : pc[t] = "idle" /\ ret[t] \in {0, 1}
  /\ Cardinality(ReturnTrue) = 1
  /\ Elems("A") = <<2, 3, 5, 7>>

\* one assignment A = {5, 5} and one A.push_back(7) have been called and both
\* have returned
AssignedAndPushed ==
  /\ \A t \in Threads : pc[t] = "idle"
  /\ calls = 2
  /\ Cardinality({t \in Threads : pushed[t] = <<7>>}) = 1
  /\ \A t \in Threads : Len(pushed[t]) <= 1

\* C33 (assignment is serialised with the mutators): when A = x runs
\* concurrently with A.push_back(7), A ends up holding x followed by 7, or x:
\* never the contents from before the assignment followed by 7
AssignmentIsSerialised ==
  AssignedAndPushed => Elems("A") \in {<<5, 5, 7>>, <<5, 5>>}

\* C34: the reference that at(n), operator[], front() or back() of the container
\* returned designates an element of a buffer that is still alive for as long as
\* the caller may read through it, also when another thread publishes a new
\* buffer after the accessor returned.
ReferenceStaysAlive == \A t \in Threads : ref[t] # NoRef => RefAlive(ref[t])

\* C35: A.swap(B) with A and B holding different contents takes effect at once
\* for an observer of both containers: in no state, during the swap or after
\* it, do the current buffers of A and B hold the same contents.
SwapIsAtomic == Elems("A") # Elems("B")

InSelfSwap(t) == op[t].k = "swap" /\ op[t].c = op[t].d /\ pc[t] # "idle"

\* C36: self-swap is harmless: A.swap(A) returns, and no step of it changes the
\* contents of A.
SelfSwapReturns ==
  /\ [][\A t \in Threads :
         InSelfSwap(t) /\ pc'[t] # pc[t] => Elems("A")' = Elems("A")]_vars
  /\ \A t \in Threads : InSelfSwap(t) ~> (pc[t] = "idle")

\* C37: there is no atomicity across calls: a thread that is between two of its
\* calls holds nothing that keeps other threads out, so while the other threads
\* are between calls a mutator of any thread takes the mutex and takes effect.
NoAtomicityAcrossCalls ==
  \A u \in Threads :
    (pc[u] = "acquire" /\ \A t \in Threads \ {u} : pc[t] = "idle")
      => ENABLED Acquire(u)

\* a thread got 3 from size() and then called erase_at(2); in between another
\* thread's mutator took effect, and erase_at finds two elements
SizeChangedBeforeUse ==
  \E t \in Threads :
    /\ pc[t] = "copy" /\ op[t] = EraseAt("A", 2)
    /\ ret[t] = 3
    /\ Len(pre[t].a) = 2

\* C38: the masking is reversible in arithmetic modulo 2^Width: whatever key and
\* salt were drawn, a cipher_value constructed or assigned from x, or copied or
\* moved (by construction or assignment) from an object holding x, converts
\* back to x.
CipherRoundTrip ==
  \A o \in CipherObjs : cipher[o].alive => Value(o) = cipher[o].plain

\* v is a copy of u with another key, another salt and another encrypted
\* integer, and the addition of v's salt wrapped around
CopyUnderFreshKey ==
  /\ cipher["u"].alive /\ cipher["v"].alive
  /\ cipher["u"].plain = cipher["v"].plain
  /\ cipher["u"].key # cipher["v"].key
  /\ cipher["u"].salt # cipher["v"].salt
  /\ cipher["u"].enc # cipher["v"].enc
  /\ Xor(cipher["v"].plain, cipher["v"].key) + cipher["v"].salt >= Modulus

\* C39: a loop over a sqlite_query from begin() until the iterator equals end()
\* terminates when sqlite3_step answers SQLITE_BUSY only finitely often: it
\* ends with the body run once per row (not at all for an empty result), or
\* with sqlite_exception thrown, which happens exactly on a step result other
\* than SQLITE_ROW, SQLITE_DONE and SQLITE_BUSY.
QueryLoopTerminates ==
  /\ [](query.pc = "done" => query.body = query.rows /\ query.state = "DONE")
  /\ [](query.pc = "thrown" <=> query.state \notin {"NONE", "ROW", "DONE", "BUSY"})
  /\ <>(query.pc \in {"done", "thrown"})

\* the loop over three rows has ended after three runs of the body and two
\* sleeps on SQLITE_BUSY
LoopOverThreeRowsEnded ==
  /\ query.pc = "done"
  /\ query.rows = 3 /\ query.body = 3
  /\ query.waited = 2

====
